---------------------------- MODULE Spec2Model ----------------------------
(***************************************************************************)
(* A model of the Nigerian mobile number validator: the input sanitizer,   *)
(* the typing-direction flags, the rolling-window rate limiter, the lazily *)
(* materialized numbering plan and the validate() orchestrator with its    *)
(* event emission.                                                         *)
(*                                                                         *)
(* A string is a sequence of one-character strings.  A few characters that *)
(* TLA+ cannot write are named: "BEL" is U+0007 (a control character that  *)
(* is no whitespace), "NBSP" is U+00A0 (whitespace that is no control      *)
(* character).                                                             *)
(*                                                                         *)
(* A JavaScript number is exact up to 2^53, a TLC integer is 32 bits wide. *)
(* A local number (10 decimal digits) is therefore held as two limbs in    *)
(* base 10,000,000: [hi |-> n div 10^7, lo |-> n mod 10^7].                *)
(***************************************************************************)
EXTENDS Integers, Sequences, FiniteSets, TLC

VARIABLES
    validationTriggeringFlags, \* [previousUserInput, hasPreviouslyErrored, validated]
    mobileNumberingPlan,       \* [initialized, networkCodeMap]
    listeners,                 \* the emitter's 'validationResult' listeners, in order
    rateLimit,                 \* options.rateLimit (0: no rate limiter)
    requestTimestamps,         \* the rate limiter's admitted request times
    now,                       \* the value Date.now() returns
    lastCall,                  \* history: the last validate() call and what it did
    loadCount,                 \* history: how often loadNetworkCodeData ran, per code
    searched,                  \* history: the codes search() was asked for
    lastSearch,                \* history: the last direct search() and its result
    lastOp,                    \* history: the last constructor or static call
    admittedAt,                \* history: the times the rate limiter let a call pass
    networkAccessCodeUtil,     \* NetworkAccessCodeUtil's static [initialized, networkCodeMap]
    instanceB,                 \* a second validator of the same process
    alone,                     \* history: the validator as it is without the second one
    released,                  \* history: the callbacks taken off and not registered since
    fallbackEmitter            \* the emitter createEventEmitter() makes without Node or a browser

vars == <<validationTriggeringFlags, mobileNumberingPlan, listeners, rateLimit,
          requestTimestamps, now, lastCall, loadCount, searched, lastSearch, lastOp,
          admittedAt, networkAccessCodeUtil, instanceB, alone, released,
          fallbackEmitter>>

\* what the operations of a validator and of its plan leave alone
otherVars == <<lastOp, instanceB, alone, fallbackEmitter>>

---------------------------------------------------------------------------
(* Characters and strings                                                  *)

Digits == {"0", "1", "2", "3", "4", "5", "6", "7", "8", "9"}

DigitValue(c) ==
    CASE c = "0" -> 0 [] c = "1" -> 1 [] c = "2" -> 2 [] c = "3" -> 3
      [] c = "4" -> 4 [] c = "5" -> 5 [] c = "6" -> 6 [] c = "7" -> 7
      [] c = "8" -> 8 [] c = "9" -> 9

DigitChar(d) ==
    CASE d = 0 -> "0" [] d = 1 -> "1" [] d = 2 -> "2" [] d = 3 -> "3"
      [] d = 4 -> "4" [] d = 5 -> "5" [] d = 6 -> "6" [] d = 7 -> "7"
      [] d = 8 -> "8" [] d = 9 -> "9"

\* /[\x00-\x1F\x7F-\x9F]/ : tab and newline are control characters
ControlChars == {"\t", "\n", "BEL"}

\* /\s/ : space, tab, newline, no-break space
WhitespaceChars == {" ", "\t", "\n", "NBSP"}

\* the value of an argument that was not passed (undefined) or is null
Undefined == <<"undefined">>

\* JavaScript's !s for a string argument
Falsy(s) == s = Undefined \/ s = <<>>

\* s ?? ''
OrEmpty(s) == IF s = Undefined THEN <<>> ELSE s

StartsWith(s, p) == Len(s) >= Len(p) /\ SubSeq(s, 1, Len(p)) = p

\* s.substring(from, to), 0-based, to exclusive, both clamped to the length
Substring(s, from, to) ==
    LET f == IF from > Len(s) THEN Len(s) ELSE from
        t == IF to > Len(s) THEN Len(s) ELSE to
    IN  SubSeq(s, f + 1, t)

\* s.substring(from)
SubstringFrom(s, from) == Substring(s, from, Len(s))

RECURSIVE RemoveChars(_, _)
RemoveChars(s, cs) ==
    IF s = <<>> THEN <<>>
    ELSE IF Head(s) \in cs THEN RemoveChars(Tail(s), cs)
         ELSE <<Head(s)>> \o RemoveChars(Tail(s), cs)

\* parseInt of a string of at most 9 decimal digits
RECURSIVE ParseInt(_)
ParseInt(s) ==
    IF s = <<>> THEN 0
    ELSE ParseInt(SubSeq(s, 1, Len(s) - 1)) * 10 + DigitValue(s[Len(s)])

\* `${n}` for an integer n >= 0: decimal, no leading zeros
RECURSIVE NumberToString(_)
NumberToString(n) ==
    IF n < 10 THEN <<DigitChar(n)>>
    ELSE NumberToString(n \div 10) \o <<DigitChar(n % 10)>>

---------------------------------------------------------------------------
(* Two-limb numbers                                                        *)

\* 10,000,000 local numbers per network code
LimbBase == 10000000

Num(h, l) == [hi |-> h, lo |-> l]

NumLess(a, b) == a.hi < b.hi \/ (a.hi = b.hi /\ a.lo < b.lo)
NumLeq(a, b) == a = b \/ NumLess(a, b)

\* a + k for a small integer k >= 0
NumAdd(a, k) == Num(a.hi + (a.lo + k) \div LimbBase, (a.lo + k) % LimbBase)

\* code * 10000000
NumTimesBase(code) == Num(code, 0)

\* parseInt of a string of decimal digits, of any length up to 16
ParseIntWide(s) ==
    IF Len(s) <= 7 THEN Num(0, ParseInt(s))
    ELSE Num(ParseInt(SubSeq(s, 1, Len(s) - 7)),
             ParseInt(SubSeq(s, Len(s) - 6, Len(s))))

---------------------------------------------------------------------------
(* ValidatorSecurity and GeneralUtils                                      *)

MAX_INPUT_LENGTH == 50

WindowSizeMs == 60000

ReplaceO(c) == IF c \in {"o", "O"} THEN "0" ELSE c

\* stripUnsafeInputs with the plus sign left in place
stripUnsafeInputsKeepsPlus(userProvidedDigits) ==
    IF Falsy(userProvidedDigits) THEN <<>>
    ELSE LET truncated == IF Len(userProvidedDigits) > MAX_INPUT_LENGTH
                          THEN Substring(userProvidedDigits, 0, MAX_INPUT_LENGTH)
                          ELSE userProvidedDigits
             noControl == RemoveChars(truncated, ControlChars)
             noFormat  == RemoveChars(noControl, {"(", ")", "-"} \cup WhitespaceChars)
         IN  [i \in 1..Len(noFormat) |-> ReplaceO(noFormat[i])]

\* s with its first plus sign taken out
RECURSIVE RemoveFirstPlus(_)
RemoveFirstPlus(s) == IF s = <<>> THEN <<>> ELSE IF Head(s) = "+" THEN Tail(s) ELSE <<Head(s)>> \o RemoveFirstPlus(Tail(s))

\* stripUnsafeInputs whose replace of the plus sign is not global
stripUnsafeInputsFirstPlusOnly(userProvidedDigits) == RemoveFirstPlus(stripUnsafeInputsKeepsPlus(userProvidedDigits))

stripUnsafeInputs(userProvidedDigits) ==
    IF Falsy(userProvidedDigits) THEN <<>>
    ELSE LET truncated == IF Len(userProvidedDigits) > MAX_INPUT_LENGTH
                          THEN Substring(userProvidedDigits, 0, MAX_INPUT_LENGTH)
                          ELSE userProvidedDigits
             noControl == RemoveChars(truncated, ControlChars)
             noFormat  == RemoveChars(noControl,
                                      {"+", "(", ")", "-"} \cup WhitespaceChars)
         IN  [i \in 1..Len(noFormat) |-> ReplaceO(noFormat[i])]

\* /[^oO\d\s\(\)\+\-]/ matches none of these
FastRejectAllowed == {"o", "O", "(", ")", "+", "-"} \cup Digits \cup WhitespaceChars

fastReject(input) ==
    \/ Falsy(input)
    \/ Len(input) > MAX_INPUT_LENGTH
    \/ \E i \in 1..Len(input) : input[i] \notin FastRejectAllowed

\* isNumeric with /^[0-9]*$/ : the empty string passes
isNumericOrEmpty(value) ==
    \A i \in 1..Len(value) : value[i] \in Digits

\* /^[0-9]+$/
isNumeric(value) ==
    value # <<>> /\ \A i \in 1..Len(value) : value[i] \in Digits

\* the while loop that shifts the timestamps older than the window start
RECURSIVE PruneTimestamps(_, _)
PruneTimestamps(ts, windowStart) ==
    IF ts # <<>> /\ Head(ts) < windowStart
    THEN PruneTimestamps(Tail(ts), windowStart)
    ELSE ts

\* hasExceededLimit() that refuses only above maxRequests
hasExceededLimitAbove(ts, time, maxRequests) == IF Len(PruneTimestamps(ts, time - WindowSizeMs)) > maxRequests THEN [allowed |-> FALSE, timestamps |-> PruneTimestamps(ts, time - WindowSizeMs)] ELSE [allowed |-> TRUE, timestamps |-> Append(PruneTimestamps(ts, time - WindowSizeMs), time)]

hasExceededLimitRecording(ts, time, maxRequests) == [allowed |-> Len(PruneTimestamps(ts, time - WindowSizeMs)) < maxRequests, timestamps |-> Append(PruneTimestamps(ts, time - WindowSizeMs), time)]

\* the rate limiter's hasExceededLimit(): TRUE means the request is allowed
hasExceededLimit(ts, time, maxRequests) ==
    LET pruned == PruneTimestamps(ts, time - WindowSizeMs)
    IN  IF Len(pruned) >= maxRequests
        THEN [allowed |-> FALSE, timestamps |-> pruned]
        ELSE [allowed |-> TRUE, timestamps |-> Append(pruned, time)]

\* the rate limiter's timeUntilNextAllowed: its value and the timestamps it leaves
timeUntilNextAllowed(ts, time, maxRequests) ==
    LET pruned == PruneTimestamps(ts, time - WindowSizeMs)
    IN  [value |-> IF Len(pruned) < maxRequests THEN 0
                   ELSE pruned[1] - (time - WindowSizeMs),
         timestamps |-> pruned]

\* the validator's checkHasExceededRateLimit(): no limiter unless rateLimit > 0
checkHasExceededRateLimit(ts, time, limit) ==
    IF ~(limit > 0) THEN [allowed |-> TRUE, timestamps |-> ts]
    ELSE hasExceededLimit(ts, time, limit)

---------------------------------------------------------------------------
(* MobileNumberRange, NetworkAccessCode, Telco, TelcoNumberAllocation      *)

\* the constructor's test with > in place of >=
MobileNumberRangeThrowsIfGreater(lowerBound, upperBound) == NumLess(upperBound, lowerBound)

\* the constructor throws when lowerBound >= upperBound
MobileNumberRangeThrows(lowerBound, upperBound) == ~NumLess(lowerBound, upperBound)

MobileNumberRange(lowerBound, upperBound) ==
    [lowerBound |-> lowerBound, upperBound |-> upperBound]

\* compareTo that takes two ranges that share one bound for apart
compareToTouchingBefore(this, other) == IF NumLeq(this.upperBound, other.lowerBound) THEN -1 ELSE IF NumLess(other.upperBound, this.lowerBound) THEN 1 ELSE 0

\* this.compareTo(otherMobileNumberRange)
compareTo(this, otherMobileNumberRange) ==
    IF NumLess(this.upperBound, otherMobileNumberRange.lowerBound) THEN -1
    ELSE IF NumLess(otherMobileNumberRange.upperBound, this.lowerBound) THEN 1
    ELSE 0

\* this.isSubset(other): other lies within this
isSubset(this, other) ==
    NumLeq(this.lowerBound, other.lowerBound) /\ NumLeq(other.upperBound, this.upperBound)

\* isWithinRange with the upper bound left out
isWithinRangeExclusive(this, usersNumber) ==
    NumLeq(this.lowerBound, usersNumber) /\ NumLess(usersNumber, this.upperBound)

isWithinRange(this, usersNumber) ==
    NumLeq(this.lowerBound, usersNumber) /\ NumLeq(usersNumber, this.upperBound)

NetworkAccessCode ==
    (700..710) \cup (800..818) \cup (900..909) \cup (911..916)

subscriberNumberUpperbound == 9999999

getLocalNumberRange(networkCode) ==
    MobileNumberRange(NumTimesBase(networkCode),
                      NumAdd(NumTimesBase(networkCode), subscriberNumberUpperbound))

\* NetworkAccessCodeUtil's static fields before the first call of the process
NewNetworkAccessCodeUtil == [initialized |-> FALSE, networkCodeMap |-> {}]

\* initialize() that empties the map when it is called again
initializeClearing(util) == IF util.initialized THEN [util EXCEPT !.networkCodeMap = {}] ELSE [initialized |-> TRUE, networkCodeMap |-> util.networkCodeMap \cup NetworkAccessCode]

\* NetworkAccessCodeUtil.initialize(): the first call fills the map
initialize(util) == IF util.initialized THEN util ELSE [initialized |-> TRUE, networkCodeMap |-> util.networkCodeMap \cup NetworkAccessCode]

\* initialize(); networkCodeMap.has(mobileAccessCode)
networkCodeMapHas(util, mobileAccessCode) == mobileAccessCode \in initialize(util).networkCodeMap

\* isNetworkCodeValid on the map every call finds: initialize() has filled it
isNetworkCodeValid(mobileAccessCode) == mobileAccessCode \in NetworkAccessCode

Telco == {"Shared VAS", "Unassigned", "Airtel", "MTN", "M-Tel", "Globacom",
          "9Mobile", "Visafone", "Smile", "Mafab", "Interconnect Clearinghouse",
          "Openskys", "Withdrawn", "Returned", "Reserved", "Telewyz", "Unknown"}

subscriberNumberToLocalNumber(networkAccessCode, subscriberNumber) ==
    NumAdd(getLocalNumberRange(networkAccessCode).lowerBound, subscriberNumber)

AllocationRange(networkAccessCode, lower, upper) ==
    MobileNumberRange(subscriberNumberToLocalNumber(networkAccessCode, lower),
                      subscriberNumberToLocalNumber(networkAccessCode, upper))

\* the constructor throws when the range is inverted or not within the code's range
TelcoNumberAllocationThrows(networkAccessCode, lower, upper) ==
    LET r == AllocationRange(networkAccessCode, lower, upper)
    IN  \/ MobileNumberRangeThrows(r.lowerBound, r.upperBound)
        \/ ~isSubset(getLocalNumberRange(networkAccessCode), r)

TelcoNumberAllocation(networkAccessCode, telco, lower, upper) ==
    [networkAccessCode |-> networkAccessCode,
     telco |-> telco,
     localNumberRange |-> AllocationRange(networkAccessCode, lower, upper)]

---------------------------------------------------------------------------
(* MobileNumberingPlan                                                     *)

\* the operator of each network code that has a single allocation
SingleTelco(networkCode) ==
    CASE networkCode \in {700, 800} -> "Shared VAS"
      [] networkCode \in {701, 708, 802, 808, 812, 901, 902, 904, 907, 911, 912}
            -> "Airtel"
      [] networkCode \in {703, 704, 706, 707, 803, 806, 810, 813, 814, 816,
                          903, 906, 913, 914, 916} -> "MTN"
      [] networkCode \in {705, 805, 807, 811, 815, 905, 915} -> "Globacom"
      [] networkCode = 709 -> "Withdrawn"
      [] networkCode = 710 -> "Telewyz"
      [] networkCode = 801 -> "Mafab"
      [] networkCode = 804 -> "M-Tel"
      [] networkCode \in {809, 817, 818, 908, 909} -> "9Mobile"
      [] networkCode = 900 -> "Reserved"

\* the plan data with the bounds of the Visafone sub-range of 702 exchanged
NetworkCodeDataInverted(networkCode) ==
    IF networkCode = 702
    THEN << <<"Smile", 0, 999999>>,
            <<"Returned", 1000000, 1999999>>,
            <<"Interconnect Clearinghouse", 2000000, 2000199>>,
            <<"Withdrawn", 2000200, 2999999>>,
            <<"Openskys", 3000000, 3999999>>,
            <<"Withdrawn", 4000000, 4999999>>,
            <<"Visafone", 6999999, 5000000>>,
            <<"Withdrawn", 7000000, 9999999>> >>
    ELSE IF networkCode \in NetworkAccessCode
    THEN << <<SingleTelco(networkCode), 0, 9999999>> >>
    ELSE << >>

\* the plan data with the Returned sub-range of 702 one number too long
NetworkCodeDataOverlapping(networkCode) ==
    IF networkCode = 702
    THEN << <<"Smile", 0, 999999>>,
            <<"Returned", 1000000, 2000000>>,
            <<"Interconnect Clearinghouse", 2000000, 2000199>>,
            <<"Withdrawn", 2000200, 2999999>>,
            <<"Openskys", 3000000, 3999999>>,
            <<"Withdrawn", 4000000, 4999999>>,
            <<"Visafone", 5000000, 6999999>>,
            <<"Withdrawn", 7000000, 9999999>> >>
    ELSE IF networkCode \in NetworkAccessCode
    THEN << <<SingleTelco(networkCode), 0, 9999999>> >>
    ELSE << >>

\* the plan data with the Visafone sub-range of 702 listed as two
NetworkCodeDataSplit(networkCode) ==
    IF networkCode = 702
    THEN << <<"Smile", 0, 999999>>,
            <<"Returned", 1000000, 1999999>>,
            <<"Interconnect Clearinghouse", 2000000, 2000199>>,
            <<"Withdrawn", 2000200, 2999999>>,
            <<"Openskys", 3000000, 3999999>>,
            <<"Withdrawn", 4000000, 4999999>>,
            <<"Visafone", 5000000, 5999999>>,
            <<"Visafone", 6000000, 6999999>>,
            <<"Withdrawn", 7000000, 9999999>> >>
    ELSE IF networkCode \in NetworkAccessCode
    THEN << <<SingleTelco(networkCode), 0, 9999999>> >>
    ELSE << >>

\* the plan data with the last number of the Returned sub-range of 702 left out
NetworkCodeDataGap(networkCode) ==
    IF networkCode = 702
    THEN << <<"Smile", 0, 999999>>,
            <<"Returned", 1000000, 1999998>>,
            <<"Interconnect Clearinghouse", 2000000, 2000199>>,
            <<"Withdrawn", 2000200, 2999999>>,
            <<"Openskys", 3000000, 3999999>>,
            <<"Withdrawn", 4000000, 4999999>>,
            <<"Visafone", 5000000, 6999999>>,
            <<"Withdrawn", 7000000, 9999999>> >>
    ELSE IF networkCode \in NetworkAccessCode
    THEN << <<SingleTelco(networkCode), 0, 9999999>> >>
    ELSE << >>

\* the plan data with the first boundary of 702 one number later
NetworkCodeDataShifted(networkCode) ==
    IF networkCode = 702
    THEN << <<"Smile", 0, 1000000>>,
            <<"Returned", 1000001, 1999999>>,
            <<"Interconnect Clearinghouse", 2000000, 2000199>>,
            <<"Withdrawn", 2000200, 2999999>>,
            <<"Openskys", 3000000, 3999999>>,
            <<"Withdrawn", 4000000, 4999999>>,
            <<"Visafone", 5000000, 6999999>>,
            <<"Withdrawn", 7000000, 9999999>> >>
    ELSE IF networkCode \in NetworkAccessCode
    THEN << <<SingleTelco(networkCode), 0, 9999999>> >>
    ELSE << >>

\* the allocations the switch of loadNetworkCodeData lists for a code:
\* <<telco, subscriberNumberLowerbound, subscriberNumberUpperbound>>
NetworkCodeData(networkCode) ==
    IF networkCode = 702
    THEN << <<"Smile", 0, 999999>>,
            <<"Returned", 1000000, 1999999>>,
            <<"Interconnect Clearinghouse", 2000000, 2000199>>,
            <<"Withdrawn", 2000200, 2999999>>,
            <<"Openskys", 3000000, 3999999>>,
            <<"Withdrawn", 4000000, 4999999>>,
            <<"Visafone", 5000000, 6999999>>,
            <<"Withdrawn", 7000000, 9999999>> >>
    ELSE IF networkCode \in NetworkAccessCode
    THEN << <<SingleTelco(networkCode), 0, 9999999>> >>
    ELSE << >>

\* loadNetworkCodeData throws when a constructor in it throws
loadNetworkCodeDataThrows(networkCode) ==
    \E i \in 1..Len(NetworkCodeData(networkCode)) :
        TelcoNumberAllocationThrows(networkCode,
                                    NetworkCodeData(networkCode)[i][2],
                                    NetworkCodeData(networkCode)[i][3])

\* the list loadNetworkCodeData stores for a code
loadNetworkCodeData(networkCode) ==
    [i \in 1..Len(NetworkCodeData(networkCode)) |->
        TelcoNumberAllocation(networkCode,
                              NetworkCodeData(networkCode)[i][1],
                              NetworkCodeData(networkCode)[i][2],
                              NetworkCodeData(networkCode)[i][3])]

EmptyMap == [c \in {} |-> <<>>]

NewMobileNumberingPlan == [initialized |-> FALSE, networkCodeMap |-> EmptyMap]

\* an empty list for every code of the enum, once
lazyInitialize(plan) ==
    IF plan.initialized THEN plan
    ELSE [initialized |-> TRUE,
          networkCodeMap |-> [c \in NetworkAccessCode |-> <<>>]]

\* Math.floor(localNumber / 10000000)
NumericNetworkCode(localNumber) == localNumber.hi

\* search finds nothing
null == [isNull |-> TRUE]

\* the first allocation of the list whose range contains the number
RECURSIVE ScanAllocations(_, _)
ScanAllocations(telcoNumberAllocations, localNumber) ==
    IF telcoNumberAllocations = <<>> THEN null
    ELSE IF isWithinRange(Head(telcoNumberAllocations).localNumberRange, localNumber)
         THEN Head(telcoNumberAllocations)
         ELSE ScanAllocations(Tail(telcoNumberAllocations), localNumber)

\* NeedsLoad without the test that the list is still empty
NeedsLoadAlways(plan, networkCode) ==
    networkCode \in DOMAIN plan.networkCodeMap

\* the code search() loads data for: a valid code whose list is still empty
NeedsLoad(plan, networkCode) ==
    /\ networkCode \in DOMAIN plan.networkCodeMap
    /\ plan.networkCodeMap[networkCode] = <<>>

\* search(localNumber) on a plan: the allocation (or null), the plan afterwards,
\* the codes it loaded and whether it threw
search(plan0, localNumber) ==
    LET plan == lazyInitialize(plan0)
        numericNetworkCode == NumericNetworkCode(localNumber)
    IN  IF numericNetworkCode \notin NetworkAccessCode
        THEN [result |-> null, plan |-> plan, loaded |-> <<>>, threw |-> FALSE]
        ELSE IF NeedsLoad(plan, numericNetworkCode)
                /\ loadNetworkCodeDataThrows(numericNetworkCode)
        THEN [result |-> null, plan |-> plan, loaded |-> <<numericNetworkCode>>,
              threw |-> TRUE]
        ELSE LET loaded == IF NeedsLoad(plan, numericNetworkCode)
                           THEN <<numericNetworkCode>> ELSE <<>>
                 map == IF NeedsLoad(plan, numericNetworkCode)
                        THEN [plan.networkCodeMap EXCEPT ![numericNetworkCode] =
                                 loadNetworkCodeData(numericNetworkCode)]
                        ELSE plan.networkCodeMap
             IN  [result |-> ScanAllocations(map[numericNetworkCode], localNumber),
                  plan |-> [plan EXCEPT !.networkCodeMap = map],
                  loaded |-> loaded,
                  threw |-> FALSE]

---------------------------------------------------------------------------
(* NigerianMobileNumberValidator                                           *)

MobileValidationStatus ==
    {"IncorrectNumberOfDigits", "NotNigerianNumber", "ContainsNonNumericChars",
     "IncorrectNetworkCode", "InvalidSubscriberNumber", "UnassignedNetworkCode",
     "SharedVASNetworkCode", "WithdrawnNetworkCode", "ReservedNetworkCode",
     "RateLimitExceeded", "ReturnedNetworkCode", "Success"}

\* an optional argument that was not passed
undefined == [isUndefined |-> TRUE]

NewValidationTriggeringFlags ==
    [previousUserInput |-> <<>>, hasPreviouslyErrored |-> FALSE, validated |-> FALSE]

updateValidationTriggeringFlags(flags, validationSucceeded) ==
    [flags EXCEPT !.hasPreviouslyErrored = IF ~validationSucceeded THEN TRUE ELSE @,
                  !.validated = validationSucceeded]

\* TRUE: Forward, FALSE: Backward
TypingForward(flags, currentUserInput) ==
    Len(flags.previousUserInput) <= Len(currentUserInput)

\* the value with one digit more asked of a local number once a call has failed
\* or succeeded
EnoughDigitsLateAfterError(flags, currentUserInput) ==
    LET forward == TypingForward(flags, currentUserInput)
        len == Len(currentUserInput)
    IN  IF len = 0 THEN FALSE
        ELSE IF flags.hasPreviouslyErrored \/ flags.validated
        THEN IF StartsWith(currentUserInput, <<"0">>)
             THEN IF forward THEN len >= 12 ELSE len = 10 \/ len = 11
             ELSE IF StartsWith(currentUserInput, <<"2", "3", "4">>)
             THEN IF forward THEN len >= 13 ELSE len = 12 \/ len = 13
             ELSE FALSE
        ELSE IF StartsWith(currentUserInput, <<"0">>) /\ len >= 11 THEN TRUE
        ELSE IF StartsWith(currentUserInput, <<"2", "3", "4">>) /\ len >= 13 THEN TRUE
        ELSE FALSE

\* the value with no second try one digit short on the way back
EnoughDigitsBackwardExact(flags, currentUserInput) ==
    LET forward == TypingForward(flags, currentUserInput)
        len == Len(currentUserInput)
    IN  IF len = 0 THEN FALSE
        ELSE IF flags.hasPreviouslyErrored \/ flags.validated
        THEN IF StartsWith(currentUserInput, <<"0">>)
             THEN IF forward THEN len >= 11 ELSE len = 11
             ELSE IF StartsWith(currentUserInput, <<"2", "3", "4">>)
             THEN IF forward THEN len >= 13 ELSE len = 13
             ELSE FALSE
        ELSE IF StartsWith(currentUserInput, <<"0">>) /\ len >= 11 THEN TRUE
        ELSE IF StartsWith(currentUserInput, <<"2", "3", "4">>) /\ len >= 13 THEN TRUE
        ELSE FALSE

\* the value areThereEnoughDigitsToValidate returns
EnoughDigits(flags, currentUserInput) ==
    LET forward == TypingForward(flags, currentUserInput)
        len == Len(currentUserInput)
    IN  IF len = 0 THEN FALSE
        ELSE IF flags.hasPreviouslyErrored \/ flags.validated
        THEN IF StartsWith(currentUserInput, <<"0">>)
             THEN IF forward THEN len >= 11 ELSE len = 10 \/ len = 11
             ELSE IF StartsWith(currentUserInput, <<"2", "3", "4">>)
             THEN IF forward THEN len >= 13 ELSE len = 12 \/ len = 13
             ELSE FALSE
        ELSE IF StartsWith(currentUserInput, <<"0">>) /\ len >= 11 THEN TRUE
        ELSE IF StartsWith(currentUserInput, <<"2", "3", "4">>) /\ len >= 13 THEN TRUE
        ELSE FALSE

\* areThereEnoughDigitsToValidate: its value and the flags it leaves
areThereEnoughDigitsToValidate(flags, currentUserInput) ==
    [enough |-> EnoughDigits(flags, currentUserInput),
     flags |-> IF Len(currentUserInput) = 0
               THEN [previousUserInput |-> currentUserInput,
                     hasPreviouslyErrored |-> FALSE, validated |-> FALSE]
               ELSE [flags EXCEPT !.previousUserInput = currentUserInput]]

MobileCodeFirstDigits == {"7", "8", "9"}

\* isForeignNumber that waits for the digit after the prefix
isForeignNumberWaiting(sanitizedUserInput) ==
    IF sanitizedUserInput = <<>> THEN FALSE
    ELSE IF StartsWith(sanitizedUserInput, <<"0">>)
    THEN IF Len(sanitizedUserInput) < 2 THEN FALSE
         ELSE sanitizedUserInput[2] \notin MobileCodeFirstDigits
    ELSE IF StartsWith(sanitizedUserInput, <<"2", "3", "4">>)
    THEN IF Len(sanitizedUserInput) < 4 THEN FALSE
         ELSE sanitizedUserInput[4] \notin MobileCodeFirstDigits
    ELSE TRUE

isForeignNumber(sanitizedUserInput) ==
    IF sanitizedUserInput = <<>> THEN FALSE
    ELSE IF StartsWith(sanitizedUserInput, <<"0">>)
    THEN IF Len(sanitizedUserInput) < 2 THEN TRUE
         ELSE sanitizedUserInput[2] \notin MobileCodeFirstDigits
    ELSE IF StartsWith(sanitizedUserInput, <<"2", "3", "4">>)
    THEN IF Len(sanitizedUserInput) < 4 THEN TRUE
         ELSE sanitizedUserInput[4] \notin MobileCodeFirstDigits
    ELSE IF StartsWith(sanitizedUserInput, <<"+", "2", "3", "4">>)
    THEN IF Len(sanitizedUserInput) < 5 THEN TRUE
         ELSE sanitizedUserInput[5] \notin MobileCodeFirstDigits
    ELSE TRUE

\* the length validate expects for the format; 0: not a Nigerian format
expectedCharLength(sanitizedUserInput) ==
    IF StartsWith(sanitizedUserInput, <<"0">>) THEN 11
    ELSE IF StartsWith(sanitizedUserInput, <<"2", "3", "4">>) THEN 13
    ELSE IF StartsWith(sanitizedUserInput, <<"+", "2", "3", "4">>) THEN 14
    ELSE 0

\* TelcoStatus with the Returned branch reporting Withdrawn
TelcoStatusReturnedAsWithdrawn(telco) ==
    IF telco = "Unassigned" THEN "UnassignedNetworkCode"
    ELSE IF telco = "Shared VAS" THEN "SharedVASNetworkCode"
    ELSE IF telco = "Withdrawn" \/ telco = "Returned" THEN "WithdrawnNetworkCode"
    ELSE IF telco = "Reserved" THEN "ReservedNetworkCode"
    ELSE "Success"

\* MobileNumberFields with the local format's subscriber digits taken one place early
MobileNumberFieldsOffByOne(msisdn) ==
    IF StartsWith(msisdn, <<"0">>)
    THEN [countryCode |-> 234,
          networkCode |-> ParseInt(Substring(msisdn, 1, 4)),
          subscriberNumber |-> SubstringFrom(msisdn, 3)]
    ELSE IF StartsWith(msisdn, <<"2", "3", "4">>)
    THEN [countryCode |-> ParseInt(Substring(msisdn, 0, 3)),
          networkCode |-> ParseInt(Substring(msisdn, 3, 6)),
          subscriberNumber |-> SubstringFrom(msisdn, 6)]
    ELSE [countryCode |-> ParseInt(Substring(msisdn, 1, 4)),
          networkCode |-> ParseInt(Substring(msisdn, 4, 7)),
          subscriberNumber |-> SubstringFrom(msisdn, 7)]

\* the MobileNumber class: the constructor's fields, then the getters
MobileNumberFields(msisdn) ==
    IF StartsWith(msisdn, <<"0">>)
    THEN [countryCode |-> 234,
          networkCode |-> ParseInt(Substring(msisdn, 1, 4)),
          subscriberNumber |-> SubstringFrom(msisdn, 4)]
    ELSE IF StartsWith(msisdn, <<"2", "3", "4">>)
    THEN [countryCode |-> ParseInt(Substring(msisdn, 0, 3)),
          networkCode |-> ParseInt(Substring(msisdn, 3, 6)),
          subscriberNumber |-> SubstringFrom(msisdn, 6)]
    ELSE [countryCode |-> ParseInt(Substring(msisdn, 1, 4)),
          networkCode |-> ParseInt(Substring(msisdn, 4, 7)),
          subscriberNumber |-> SubstringFrom(msisdn, 7)]

MobileNumber(msisdn) ==
    LET f == MobileNumberFields(msisdn)
    IN  [msisdn |-> <<"+">> \o NumberToString(f.countryCode)
                        \o NumberToString(f.networkCode) \o f.subscriberNumber,
         subscriberNumber |-> f.subscriberNumber,
         countryCode |-> f.countryCode,
         networkCode |-> f.networkCode,
         telco |-> "",
         localNumber |-> <<"0">> \o NumberToString(f.networkCode) \o f.subscriberNumber]

\* mobileNumber.telcoName = telco
WithTelcoName(mobileNumber, telco) == [mobileNumber EXCEPT !.telco = telco]

\* the constructor of MobileNumberValidationResult throws when this holds
MobileNumberValidationResultThrows(validationSucceeded, mobileNumber) ==
    validationSucceeded /\ mobileNumber = undefined

MobileNumberValidationResult(userProvidedDigits, validationStatus, validationSucceeded, mobileNumber, telcoNumberAllocation) ==
    [userProvidedDigits |-> userProvidedDigits,
     validationStatus |-> validationStatus,
     validationSucceeded |-> validationSucceeded,
     mobileNumber |-> mobileNumber,
     telcoNumberAllocation |-> telcoNumberAllocation]

\* TelcoStatus without the Withdrawn branch
TelcoStatusWithoutWithdrawn(telco) ==
    IF telco = "Unassigned" THEN "UnassignedNetworkCode"
    ELSE IF telco = "Shared VAS" THEN "SharedVASNetworkCode"
    ELSE IF telco = "Reserved" THEN "ReservedNetworkCode"
    ELSE IF telco = "Returned" THEN "ReturnedNetworkCode"
    ELSE "Success"

\* the status of the telco branch; "Success" when no branch is taken
TelcoStatus(telco) ==
    IF telco = "Unassigned" THEN "UnassignedNetworkCode"
    ELSE IF telco = "Shared VAS" THEN "SharedVASNetworkCode"
    ELSE IF telco = "Withdrawn" THEN "WithdrawnNetworkCode"
    ELSE IF telco = "Reserved" THEN "ReservedNetworkCode"
    ELSE IF telco = "Returned" THEN "ReturnedNetworkCode"
    ELSE "Success"


\* publishValidationResult up to the emit: the flags it leaves, the result it
\* builds, and whether building it threw
publishValidationResult(flags, userProvidedDigits, mobileValidationStatus, validationSucceeded, mobileNumber, telcoNumberAllocation) ==
    [flags |-> updateValidationTriggeringFlags(flags, validationSucceeded),
     threw |-> MobileNumberValidationResultThrows(validationSucceeded, mobileNumber),
     published |-> ~MobileNumberValidationResultThrows(validationSucceeded, mobileNumber),
     result |-> MobileNumberValidationResult(userProvidedDigits, mobileValidationStatus,
                    validationSucceeded, mobileNumber, telcoNumberAllocation)]

\* what one run of validate did: pub is the publish (or the bare result), the
\* rest is the state it leaves and the checks it ran, in order
Ran(steps, pub, plan, timestamps, searchedCodes, loaded) ==
    [steps |-> steps, result |-> pub.result, threw |-> pub.threw,
     published |-> pub.published, flags |-> pub.flags, plan |-> plan,
     timestamps |-> timestamps, searched |-> searchedCodes, loaded |-> loaded]

\* validate, from the parse of the mobile number on
validateParsed(steps, userProvidedDigits, sanitizedUserInput, flags, plan, timestamps) ==
    LET mobileNumber == MobileNumber(sanitizedUserInput)
        s1 == steps \o <<"isNetworkCodeValid">>
        s2 == s1 \o <<"search">>
        s3 == s2 \o <<"telco">>
    IN  IF ~isNetworkCodeValid(mobileNumber.networkCode)
        THEN Ran(s1, publishValidationResult(flags, userProvidedDigits,
                        "IncorrectNetworkCode", FALSE, mobileNumber, undefined),
                 plan, timestamps, {}, <<>>)
        ELSE
        LET localNumber == ParseIntWide(mobileNumber.localNumber)
            found == search(plan, localNumber)
            telcoNumberAllocation == found.result
            codes == {NumericNetworkCode(localNumber)}
        IN  IF found.threw
            THEN Ran(s2, [flags |-> flags, threw |-> TRUE, published |-> FALSE,
                          result |-> undefined],
                     found.plan, timestamps, codes, found.loaded)
            ELSE IF telcoNumberAllocation = null
            THEN Ran(s2, publishValidationResult(flags, userProvidedDigits,
                            "InvalidSubscriberNumber", FALSE, mobileNumber, undefined),
                     found.plan, timestamps, codes, found.loaded)
            ELSE IF TelcoStatus(telcoNumberAllocation.telco) # "Success"
            THEN Ran(s3, publishValidationResult(flags, userProvidedDigits,
                            TelcoStatus(telcoNumberAllocation.telco), FALSE,
                            mobileNumber, telcoNumberAllocation),
                     found.plan, timestamps, codes, found.loaded)
            ELSE Ran(s3, publishValidationResult(flags, userProvidedDigits,
                            "Success", TRUE,
                            WithTelcoName(mobileNumber, telcoNumberAllocation.telco),
                            telcoNumberAllocation),
                     found.plan, timestamps, codes, found.loaded)

\* validateSanitized with the completeness check moved before the foreign-number check
validateSanitizedSwapped(steps, userProvidedDigits, flags, plan, timestamps) ==
    LET sanitizedUserInput == stripUnsafeInputs(userProvidedDigits)
        s1 == steps \o <<"sanitize", "isNumeric">>
        s2 == s1 \o <<"areThereEnoughDigitsToValidate">>
        s3 == s2 \o <<"isForeignNumber">>
        s4 == s3 \o <<"expectedCharLength">>
        enough == areThereEnoughDigitsToValidate(flags, sanitizedUserInput)
    IN  IF ~isNumeric(sanitizedUserInput)
        THEN Ran(s1, publishValidationResult(flags, userProvidedDigits,
                        "ContainsNonNumericChars", FALSE, undefined, undefined),
                 plan, timestamps, {}, <<>>)
        ELSE IF ~enough.enough
        THEN Ran(s2, publishValidationResult(enough.flags, userProvidedDigits,
                        "IncorrectNumberOfDigits", FALSE, undefined, undefined),
                 plan, timestamps, {}, <<>>)
        ELSE IF isForeignNumber(sanitizedUserInput)
        THEN Ran(s3, publishValidationResult(enough.flags, userProvidedDigits,
                        "NotNigerianNumber", FALSE, undefined, undefined),
                 plan, timestamps, {}, <<>>)
        ELSE IF Len(sanitizedUserInput) # expectedCharLength(sanitizedUserInput)
        THEN Ran(s4, publishValidationResult(enough.flags, userProvidedDigits,
                        "IncorrectNumberOfDigits", FALSE, undefined, undefined),
                 plan, timestamps, {}, <<>>)
        ELSE validateParsed(s4, userProvidedDigits, sanitizedUserInput,
                            enough.flags, plan, timestamps)

\* validate, from the sanitizing of the input on
validateSanitized(steps, userProvidedDigits, flags, plan, timestamps) ==
    LET sanitizedUserInput == stripUnsafeInputs(userProvidedDigits)
        s1 == steps \o <<"sanitize", "isNumeric">>
        s2 == s1 \o <<"isForeignNumber">>
        s3 == s2 \o <<"areThereEnoughDigitsToValidate">>
        s4 == s3 \o <<"expectedCharLength">>
        enough == areThereEnoughDigitsToValidate(flags, sanitizedUserInput)
    IN  IF ~isNumeric(sanitizedUserInput)
        THEN Ran(s1, publishValidationResult(flags, userProvidedDigits,
                        "ContainsNonNumericChars", FALSE, undefined, undefined),
                 plan, timestamps, {}, <<>>)
        ELSE IF isForeignNumber(sanitizedUserInput)
        THEN Ran(s2, publishValidationResult(flags, userProvidedDigits,
                        "NotNigerianNumber", FALSE, undefined, undefined),
                 plan, timestamps, {}, <<>>)
        ELSE IF ~enough.enough
        THEN Ran(s3, publishValidationResult(enough.flags, userProvidedDigits,
                        "IncorrectNumberOfDigits", FALSE, undefined, undefined),
                 plan, timestamps, {}, <<>>)
        ELSE IF expectedCharLength(sanitizedUserInput) = 0
        THEN Ran(s4, publishValidationResult(enough.flags, userProvidedDigits,
                        "NotNigerianNumber", FALSE, undefined, undefined),
                 plan, timestamps, {}, <<>>)
        ELSE IF Len(sanitizedUserInput) # expectedCharLength(sanitizedUserInput)
        THEN Ran(s4, publishValidationResult(enough.flags, userProvidedDigits,
                        "IncorrectNumberOfDigits", FALSE, undefined, undefined),
                 plan, timestamps, {}, <<>>)
        ELSE validateParsed(s4, userProvidedDigits, sanitizedUserInput,
                            enough.flags, plan, timestamps)

\* validate(userProvidedDigits) up to the emit, on a validator in the given state
validate(userProvidedDigits, flags, plan, timestamps, time, limit) ==
    LET limiter == checkHasExceededRateLimit(timestamps, time, limit)
    IN  IF Falsy(userProvidedDigits) \/ fastReject(userProvidedDigits)
        THEN Ran(<<"fastReject">>,
                 publishValidationResult(flags, OrEmpty(userProvidedDigits),
                        "ContainsNonNumericChars", FALSE, undefined, undefined),
                 plan, timestamps, {}, <<>>)
        ELSE IF ~limiter.allowed
        THEN Ran(<<"fastReject", "checkHasExceededRateLimit">>,
                 [flags |-> flags, threw |-> FALSE, published |-> FALSE,
                  result |-> MobileNumberValidationResult(OrEmpty(userProvidedDigits),
                                 "RateLimitExceeded", FALSE, undefined, undefined)],
                 plan, limiter.timestamps, {}, <<>>)
        ELSE IF Falsy(userProvidedDigits) \/ Len(userProvidedDigits) = 0
        THEN Ran(<<"fastReject", "checkHasExceededRateLimit", "emptyInput">>,
                 publishValidationResult(flags, <<>>,
                        "IncorrectNumberOfDigits", FALSE, undefined, undefined),
                 plan, limiter.timestamps, {}, <<>>)
        ELSE validateSanitized(<<"fastReject", "checkHasExceededRateLimit", "emptyInput">>,
                               userProvidedDigits, flags, plan, limiter.timestamps)


---------------------------------------------------------------------------
(* The event emitter (Node's EventEmitter) and the observers               *)

\* the callbacks a caller may register; the second one throws when called
Callbacks == {"callback", "throwingCallback"}

CallbackThrows(callback) == callback = "throwingCallback"

\* emitter.emit('validationResult', result): the listeners are called in the
\* order they were registered; an exception of a listener leaves emit at once
RECURSIVE emit(_, _)
emit(registered, validationResult) ==
    IF registered = <<>> THEN [notified |-> <<>>, threw |-> FALSE]
    ELSE IF CallbackThrows(Head(registered))
    THEN [notified |-> << <<Head(registered), validationResult>> >>, threw |-> TRUE]
    ELSE LET rest == emit(Tail(registered), validationResult)
         IN  [notified |-> << <<Head(registered), validationResult>> >> \o rest.notified,
              threw |-> rest.threw]

\* emitter.off(event, callback)
RemoveListener(registered, callback) ==
    SelectSeq(registered, LAMBDA l : l # callback)

---------------------------------------------------------------------------
(* Inputs                                                                  *)

RECURSIVE Zeros(_)
Zeros(n) == IF n <= 0 THEN <<>> ELSE <<"0">> \o Zeros(n - 1)

\* the seven digits of a subscriber number
SubscriberDigits(n) == Zeros(7 - Len(NumberToString(n))) \o NumberToString(n)

\* the ten digits of a national number: network code, subscriber number
National(code, subscriber) == NumberToString(code) \o SubscriberDigits(subscriber)

Local(national) == <<"0">> \o national
International(national) == <<"2", "3", "4">> \o national
InternationalPlus(national) == <<"+", "2", "3", "4">> \o national

\* the national numbers the validator is called with: MTN, Shared VAS, the two
\* sides of the first boundary of 702, a withdrawn range of 702, and a code that
\* is not in the plan
CalledLocals ==
    {Local(National(803, 1234567)), Local(National(700, 1234567)),
     Local(National(702, 999999)), Local(National(702, 1000000)),
     Local(National(711, 1234567))}

CalledInternationals ==
    {International(National(803, 1234567)), InternationalPlus(National(803, 1234567)),
     International(National(702, 2000200))}

RECURSIVE Spaces(_)
Spaces(n) == IF n <= 0 THEN <<>> ELSE <<" ">> \o Spaces(n - 1)

\* 51 characters: digits only, and a number followed by spaces
LongInput == Local(National(803, 1234567)) \o Zeros(MAX_INPUT_LENGTH - 10)
PaddedInput == Local(National(803, 1234567)) \o Spaces(MAX_INPUT_LENGTH - 10)

\* what else it is called with: nothing, keystrokes of a number being typed or
\* deleted, too many digits, formatting, letters, a foreign number, 51 characters
ValidateInputs ==
    {Undefined, <<>>}
    \cup CalledLocals
    \cup CalledInternationals
    \cup {SubSeq(Local(National(803, 1234567)), 1, k) : k \in {1, 10}}
    \cup {SubSeq(International(National(803, 1234567)), 1, 12),
          Local(National(803, 1234567)) \o <<"8">>,
          <<"o", "8", "O", "3", " ", "1", "2", "3", "-", "4", "5", "6", "7">>,
          <<"0", "8", "0", "x">>,
          <<"+", " ">>,
          <<"1", "2", "3", "4", "5", "6", "7", "8", "9", "0", "1">>,
          LongInput, PaddedInput}

---------------------------------------------------------------------------
(* The validator as a state machine                                        *)

\* the rate limit of the validators built with one
RateLimitPerMinute == 1

\* the clock advances in steps of half a window, this many times
MaxTicks == 3

TickMs == WindowSizeMs \div 2

\* one more run of loadNetworkCodeData for each code of loaded
CountLoads(counts, loaded) ==
    IF loaded = <<>> THEN counts
    ELSE IF loaded[1] \in DOMAIN counts
    THEN [counts EXCEPT ![loaded[1]] = @ + 1]
    ELSE counts @@ (loaded[1] :> 1)

\* the events the fallback emitter is used with
EventNames == {"validationResult", "other"}

\* the listeners given to it, each named by what it does when it is called:
\* return, throw, or take itself off the event being emitted
FallbackListeners == {"returns", "throws", "offItself"}

\* on() is called while an event has fewer listeners than this
MaxListeners == 2

\* createEventEmitter() outside Node and the browser: _events is an empty Map
\* (keys: the events that have an entry; lists: the array of each)
createEventEmitter ==
    [keys |-> {}, lists |-> [event \in EventNames |-> <<>>]]

\* Array.prototype.indexOf, from 1; 0 when the element is not there
IndexOf(list, element) ==
    IF \E i \in 1..Len(list) : list[i] = element
    THEN CHOOSE i \in 1..Len(list) :
            list[i] = element /\ \A j \in 1..(i - 1) : list[j] # element
    ELSE 0

\* listeners.splice(index, 1), index from 1
SpliceOne(list, index) ==
    SubSeq(list, 1, index - 1) \o SubSeq(list, index + 1, Len(list))

\* on(event, listener) of the fallback emitter
FallbackOn(emitter, event, listener) ==
    [keys |-> emitter.keys \cup {event},
     lists |-> [emitter.lists EXCEPT ![event] = Append(@, listener)]]

\* off(event, listener): the entry stays, also when its array becomes empty
FallbackOff(emitter, event, listener) ==
    IF event \notin emitter.keys THEN emitter
    ELSE IF IndexOf(emitter.lists[event], listener) # 0
    THEN [emitter EXCEPT !.lists[event] = SpliceOne(@, IndexOf(@, listener))]
    ELSE emitter

\* removeAllListeners() without an event, which 'if (event)' takes like ''
NoEvent == ""

\* removeAllListeners(event): one entry deleted, or the Map cleared
FallbackRemoveAllListeners(emitter, event) ==
    IF event = NoEvent THEN createEventEmitter
    ELSE [keys |-> emitter.keys \ {event},
          lists |-> [emitter.lists EXCEPT ![event] = <<>>]]

\* listeners.forEach(...) of emit, from index k (from 1) on: forEach reads the
\* length once and visits index k only if the array still has it; the array
\* is the one in the Map, which a listener calling off() splices
RECURSIVE FallbackForEach(_, _, _, _, _)
FallbackForEach(list, k, len, invoked, logged) ==
    IF k > len THEN [list |-> list, invoked |-> invoked, logged |-> logged]
    ELSE IF k > Len(list) THEN FallbackForEach(list, k + 1, len, invoked, logged)
    ELSE FallbackForEach(
            IF list[k] = "offItself" THEN SpliceOne(list, IndexOf(list, list[k]))
            ELSE list,
            k + 1, len, Append(invoked, list[k]),
            IF list[k] = "throws" THEN logged + 1 ELSE logged)

\* emit(event): what it returns, the listeners it called in order, the errors
\* it logged, and the emitter it leaves
FallbackEmit(emitter, event) ==
    IF event \notin emitter.keys
    THEN [returned |-> FALSE, threw |-> FALSE, invoked |-> <<>>, logged |-> 0,
          emitter |-> emitter]
    ELSE LET each == FallbackForEach(emitter.lists[event], 1,
                                     Len(emitter.lists[event]), <<>>, 0)
         IN  [returned |-> TRUE, threw |-> FALSE, invoked |-> each.invoked,
              logged |-> each.logged,
              emitter |-> [emitter EXCEPT !.lists[event] = each.list]]

\* the last step was no validate call
NoCall == [called |-> FALSE]

\* the last step was no direct search
NoSearch == [searched |-> FALSE]

\* no constructor or static function has been called
NoOp == [op |-> "none"]

\* a validator after new NigerianMobileNumberValidator({rateLimit: limit}),
\* as a record of its fields and of what its last validate call did
NewInstance(limit) ==
    [validationTriggeringFlags |-> NewValidationTriggeringFlags,
     mobileNumberingPlan |-> NewMobileNumberingPlan,
     listeners |-> <<>>,
     rateLimit |-> limit,
     requestTimestamps |-> <<>>,
     outcome |-> NoCall]

Init ==
    /\ validationTriggeringFlags = NewValidationTriggeringFlags
    /\ mobileNumberingPlan = NewMobileNumberingPlan
    /\ listeners = <<>>
    /\ rateLimit \in {0, RateLimitPerMinute}
    /\ requestTimestamps = <<>>
    /\ now = 0
    /\ lastCall = NoCall
    /\ loadCount = EmptyMap
    /\ searched = {}
    /\ lastSearch = NoSearch
    /\ lastOp = NoOp
    /\ admittedAt = <<>>
    /\ networkAccessCodeUtil = NewNetworkAccessCodeUtil
    /\ released = {}
    /\ instanceB = NewInstance(RateLimitPerMinute)
    /\ alone = [validator |-> NewInstance(rateLimit),
                networkAccessCodeUtil |-> NewNetworkAccessCodeUtil]
    /\ fallbackEmitter = createEventEmitter

\* the emit of validate: publishValidationResult emits, the rate-limit return
\* and a throw before the emit do not
emitOf(run, registered) ==
    IF run.published THEN emit(registered, run.result)
    ELSE [notified |-> <<>>, threw |-> FALSE]

\* the run came to the named step of validate
Reached(steps, step) == \E i \in 1..Len(steps) : steps[i] = step

\* the run went on after the rate-limit step: the limiter, if any, let it pass
PassedRateLimiter(steps) == Reached(steps, "emptyInput")

\* validator.validate(userProvidedDigits), the emit included
\* (run and emitted are bound by \E so that each is computed once)
ValidateStep(userProvidedDigits) ==
    \E run \in {validate(userProvidedDigits, validationTriggeringFlags,
                         mobileNumberingPlan, requestTimestamps, now, rateLimit)} :
    \E emitted \in {emitOf(run, listeners)} :
        /\ validationTriggeringFlags' = run.flags
        /\ mobileNumberingPlan' = run.plan
        /\ requestTimestamps' = run.timestamps
        /\ loadCount' = CountLoads(loadCount, run.loaded)
        /\ searched' = searched \cup run.searched
        /\ lastCall' = [called |-> TRUE,
                        input |-> userProvidedDigits,
                        threw |-> run.threw \/ emitted.threw,
                        result |-> run.result,
                        steps |-> run.steps,
                        notified |-> emitted.notified,
                        flagsBefore |-> validationTriggeringFlags,
                        timestampsBefore |-> requestTimestamps]
        /\ lastSearch' = NoSearch
        /\ admittedAt' = IF rateLimit > 0 /\ PassedRateLimiter(run.steps)
                         THEN Append(admittedAt, now) ELSE admittedAt
        /\ networkAccessCodeUtil' = IF Reached(run.steps, "isNetworkCodeValid")
                                    THEN initialize(networkAccessCodeUtil)
                                    ELSE networkAccessCodeUtil
        /\ UNCHANGED <<listeners, rateLimit, now, released>>

\* validate of the one validator there is
Validate(userProvidedDigits) == ValidateStep(userProvidedDigits) /\ UNCHANGED otherVars

\* validator.onValidationResult(callback), for a callback not yet registered
OnValidationResultStep(callback) ==
    /\ \A i \in 1..Len(listeners) : listeners[i] # callback
    /\ listeners' = Append(listeners, callback)
    /\ released' = released \ {callback}
    /\ lastCall' = NoCall
    /\ lastSearch' = NoSearch
    /\ UNCHANGED <<validationTriggeringFlags, mobileNumberingPlan, rateLimit,
                   requestTimestamps, now, loadCount, searched>>
    /\ UNCHANGED <<admittedAt, networkAccessCodeUtil>>

\* onValidationResult of the one validator there is
OnValidationResult(callback) == OnValidationResultStep(callback) /\ UNCHANGED otherVars

\* the function onValidationResult(callback) returned
Unsubscribe(callback) ==
    /\ \E i \in 1..Len(listeners) : listeners[i] = callback
    /\ listeners' = RemoveListener(listeners, callback)
    /\ released' = released \cup {callback}
    /\ lastCall' = NoCall
    /\ lastSearch' = NoSearch
    /\ UNCHANGED <<validationTriggeringFlags, mobileNumberingPlan, rateLimit,
                   requestTimestamps, now, loadCount, searched>>
    /\ UNCHANGED <<admittedAt, networkAccessCodeUtil>>
    /\ UNCHANGED otherVars

\* validator.dispose()
DisposeStep ==
    /\ listeners # <<>>
    /\ listeners' = <<>>
    /\ released' = released \cup {listeners[i] : i \in 1..Len(listeners)}
    /\ lastCall' = NoCall
    /\ lastSearch' = NoSearch
    /\ UNCHANGED <<validationTriggeringFlags, mobileNumberingPlan, rateLimit,
                   requestTimestamps, now, loadCount, searched>>
    /\ UNCHANGED <<admittedAt, networkAccessCodeUtil>>

\* dispose of the one validator there is
Dispose == DisposeStep /\ UNCHANGED otherVars

\* time passes; only a validator with a rate limiter reads the clock
Tick ==
    /\ rateLimit > 0
    /\ now < MaxTicks * TickMs
    /\ now' = now + TickMs
    /\ lastCall' = NoCall
    /\ lastSearch' = NoSearch
    /\ UNCHANGED <<validationTriggeringFlags, mobileNumberingPlan, listeners, rateLimit,
                   requestTimestamps, loadCount, searched>>
    /\ UNCHANGED <<admittedAt, networkAccessCodeUtil, released, fallbackEmitter>>
    /\ UNCHANGED otherVars

\* a validator and a caller whose one observer does not throw
Next ==
    \/ \E userProvidedDigits \in ValidateInputs : Validate(userProvidedDigits)
    \/ OnValidationResult("callback")
    \/ Unsubscribe("callback")
    \/ Tick

Spec == Init /\ [][Next]_vars


---------------------------------------------------------------------------
(* A validator whose caller registers, removes and disposes observers, one *)
(* of which throws                                                         *)

\* a number that validates, one digit short of it, and no input
ObserverInputs ==
    {Local(National(803, 1234567)),
     SubSeq(Local(National(803, 1234567)), 1, 10),
     <<>>}

NextObservers ==
    \/ \E userProvidedDigits \in ObserverInputs : Validate(userProvidedDigits)
    \/ \E callback \in Callbacks : OnValidationResult(callback)
    \/ \E callback \in Callbacks : Unsubscribe(callback)
    \/ Dispose
    \/ Tick

SpecObservers == Init /\ [][NextObservers]_vars

---------------------------------------------------------------------------
(* The numbering plan searched directly                                    *)

\* floor((lower + upper) / 2) of two numbers of one network code
Midpoint(lower, upper) == Num(lower.hi, (lower.lo + upper.lo) \div 2)

\* the lower bound, the upper bound and the midpoint of each allocation of a code
NumbersOfCode(code) ==
    UNION {LET r == loadNetworkCodeData(code)[i].localNumberRange
           IN  {r.lowerBound, r.upperBound, Midpoint(r.lowerBound, r.upperBound)}
           : i \in 1..Len(loadNetworkCodeData(code))}

\* codes that are not in the plan, zero and a negative number among them
InvalidCodes == {-1, 0, 70, 699, 711, 799, 819, 910, 917, 7020}

AllNumbers ==
    UNION {NumbersOfCode(code) : code \in NetworkAccessCode}
    \cup {Num(code, lo) : code \in InvalidCodes, lo \in {0, 1234567, 9999999}}

\* the codes search is called for: four of the plan, two that are not in it
SearchedCodes == {700, 702, 803, 900}

SearchInputs ==
    UNION {NumbersOfCode(code) : code \in SearchedCodes}
    \cup {Num(code, 1234567) : code \in {-1, 711}}

InitPlan == Init /\ rateLimit = 0

\* mobileNumberingPlan.search(localNumber)
Search(localNumber) ==
    \E found \in {search(mobileNumberingPlan, localNumber)} :
        /\ mobileNumberingPlan' = found.plan
        /\ loadCount' = CountLoads(loadCount, found.loaded)
        /\ searched' = searched \cup {NumericNetworkCode(localNumber)}
        /\ lastSearch' = [searched |-> TRUE,
                          localNumber |-> localNumber,
                          result |-> found.result,
                          threw |-> found.threw,
                          planBefore |-> mobileNumberingPlan]
        /\ lastCall' = NoCall
        /\ networkAccessCodeUtil' = initialize(networkAccessCodeUtil)
        /\ UNCHANGED <<validationTriggeringFlags, listeners, rateLimit,
                       requestTimestamps, now, admittedAt, released>>
        /\ UNCHANGED otherVars

NextPlan == \E localNumber \in SearchInputs : Search(localNumber)

SpecPlan == InitPlan /\ [][NextPlan]_vars


---------------------------------------------------------------------------
(* What the claims speak of                                                *)

Status(call) == call.result.validationStatus

\* the rate limiter, if there is one, let the call through
Admitted(call) ==
    checkHasExceededRateLimit(call.timestampsBefore, now, rateLimit).allowed

\* a string is '0' + ten digits or '234' + ten digits
IsLocalForm(s) == Len(s) = 11 /\ isNumeric(s) /\ StartsWith(s, <<"0">>)
IsInternationalForm(s) == Len(s) = 13 /\ isNumeric(s) /\ StartsWith(s, <<"2", "3", "4">>)
IsNumberForm(s) == IsLocalForm(s) \/ IsInternationalForm(s)

\* its network code digits, its subscriber digits and their values
CodeDigits(s) == SubSeq(s, Len(s) - 9, Len(s) - 7)
SubscriberPart(s) == SubSeq(s, Len(s) - 6, Len(s))
CodeOf(s) == ParseInt(CodeDigits(s))
SubscriberOf(s) == ParseInt(SubscriberPart(s))

\* the tags of the plan data whose sub-range holds a subscriber number of a code
TagsOf(code, subscriber) ==
    {NetworkCodeData(code)[i][1] : i \in
        {j \in 1..Len(NetworkCodeData(code)) :
            /\ NetworkCodeData(code)[j][2] <= subscriber
            /\ subscriber <= NetworkCodeData(code)[j][3]}}

NonOperatorTags == {"Unassigned", "Shared VAS", "Withdrawn", "Reserved", "Returned"}

\* a string is a number of a valid code whose sub-range has one of the given tags
IsNumberTagged(s, tags) ==
    /\ IsNumberForm(s)
    /\ CodeOf(s) \in NetworkAccessCode
    /\ TagsOf(CodeOf(s), SubscriberOf(s)) # {}
    /\ TagsOf(CodeOf(s), SubscriberOf(s)) \subseteq tags

\* an input the fast reject lets pass, written in one of the formats, of a
\* number of a valid code whose sub-range has one of the given tags
WellFormed(x, tags) ==
    /\ ~(Falsy(x) \/ fastReject(x))
    /\ IsNumberTagged(stripUnsafeInputs(x), tags)

\* the claims' order of the checks, and the status of each failing check
ClaimedOrder ==
    <<"fastReject", "checkHasExceededRateLimit", "sanitize", "isNumeric",
      "isForeignNumber", "areThereEnoughDigitsToValidate", "expectedCharLength",
      "isNetworkCodeValid", "search", "telco">>

ClaimedChecks == {ClaimedOrder[i] : i \in 1..Len(ClaimedOrder)}

\* the place in ClaimedOrder of the first check a call fails, 0 when it fails none
FirstFailure(call) ==
    LET x == call.input
        s == stripUnsafeInputs(x)
        n == ParseIntWide(<<"0">> \o CodeDigits(s) \o SubscriberPart(s))
        found == search(mobileNumberingPlan, n).result
    IN  IF Falsy(x) \/ fastReject(x) THEN 1
        ELSE IF ~Admitted(call) THEN 2
        ELSE IF ~isNumeric(s) THEN 4
        ELSE IF isForeignNumber(s) THEN 5
        ELSE IF ~EnoughDigits(call.flagsBefore, s) THEN 6
        ELSE IF ~IsNumberForm(s) THEN 7
        ELSE IF CodeOf(s) \notin NetworkAccessCode THEN 8
        ELSE IF found = null THEN 9
        ELSE IF found.telco \in NonOperatorTags THEN 10
        ELSE 0

FailureStatus(call, k) ==
    CASE k = 1 -> "ContainsNonNumericChars"
      [] k = 2 -> "RateLimitExceeded"
      [] k = 4 -> "ContainsNonNumericChars"
      [] k = 5 -> "NotNigerianNumber"
      [] k = 6 -> "IncorrectNumberOfDigits"
      [] k = 7 -> "IncorrectNumberOfDigits"
      [] k = 8 -> "IncorrectNetworkCode"
      [] k = 9 -> "InvalidSubscriberNumber"
      [] k = 10 -> Status(call)
      [] k = 0 -> "Success"

\* C1: a call runs the checks in the claimed order up to and including the first
\* one its input fails and no further, its status is that check's status, and
\* it is Success only when the input fails none
C1_CheckOrder ==
    (lastCall.called /\ ~lastCall.threw) =>
        LET k == FirstFailure(lastCall)
            ran == SelectSeq(lastCall.steps, LAMBDA step : step \in ClaimedChecks)
        IN  /\ ran = SubSeq(ClaimedOrder, 1, IF k = 0 THEN Len(ClaimedOrder) ELSE k)
            /\ Status(lastCall) = FailureStatus(lastCall, k)
            /\ (Status(lastCall) = "Success") <=> (k = 0)
            /\ k = 10 => Status(lastCall) \notin {"Success", "InvalidSubscriberNumber",
                            "IncorrectNetworkCode", "IncorrectNumberOfDigits",
                            "NotNigerianNumber", "ContainsNonNumericChars",
                            "RateLimitExceeded"}

\* a call that stopped at the completeness check, on an input that would also
\* have failed the exact-length check after it
C1_Witness ==
    /\ lastCall.called
    /\ FirstFailure(lastCall) = 6
    /\ Len(stripUnsafeInputs(lastCall.input)) = 10
    /\ (lastCall.flagsBefore.validated \/ lastCall.flagsBefore.hasPreviouslyErrored)


\* the parsed number and the allocation of a result are those of the number s
ParsedAs(result, s) ==
    /\ result.mobileNumber # undefined
    /\ result.mobileNumber.countryCode = 234
    /\ result.mobileNumber.networkCode = CodeOf(s)
    /\ result.mobileNumber.subscriberNumber = SubscriberPart(s)
    /\ Len(result.mobileNumber.subscriberNumber) = 7
    /\ result.mobileNumber.msisdn = <<"+", "2", "3", "4">> \o CodeDigits(s) \o SubscriberPart(s)
    /\ result.mobileNumber.localNumber = <<"0">> \o CodeDigits(s) \o SubscriberPart(s)
    /\ result.telcoNumberAllocation # undefined
    /\ result.telcoNumberAllocation.networkAccessCode = CodeOf(s)
    /\ result.telcoNumberAllocation.telco \in TagsOf(CodeOf(s), SubscriberOf(s))
    /\ isWithinRange(result.telcoNumberAllocation.localNumberRange,
                     Num(CodeOf(s), SubscriberOf(s)))

\* the Success outcome of the number s
SuccessOf(result, s) ==
    /\ result.validationStatus = "Success"
    /\ result.validationSucceeded
    /\ ParsedAs(result, s)
    /\ result.mobileNumber.telco = result.telcoNumberAllocation.telco

\* C2: an input that passes the fast reject, is let through by the rate limiter
\* and is normalized to '0'+c+s or '234'+c+s, c a valid code and s seven digits
\* of a sub-range tagged with an operator, gets Success with succeeded = true,
\* country code 234, code c, subscriber digits s, '+234'+c+s, '0'+c+s, and the
\* operator that tags the returned allocation, whose range holds c*10^7+s
C2_SuccessOutcome ==
    (/\ lastCall.called
     /\ WellFormed(lastCall.input, Telco \ NonOperatorTags)
     /\ Admitted(lastCall))
        => /\ ~lastCall.threw
           /\ SuccessOf(lastCall.result, stripUnsafeInputs(lastCall.input))

\* the number 0803 123 4567, written with a letter o, a space and a hyphen
C2_Witness ==
    /\ lastCall.called
    /\ lastCall.input # stripUnsafeInputs(lastCall.input)
    /\ stripUnsafeInputs(lastCall.input) = Local(National(803, 1234567))
    /\ Status(lastCall) = "Success"
    /\ lastCall.result.mobileNumber.telco = "MTN"

\* C2 as the specification words it: every input that is normalized to such a
\* number gets Success, whatever the fast reject and the rate limiter say
C2_AsStated ==
    (/\ lastCall.called
     /\ ~Falsy(lastCall.input)
     /\ IsNumberTagged(stripUnsafeInputs(lastCall.input), Telco \ NonOperatorTags))
        => /\ ~lastCall.threw
           /\ SuccessOf(lastCall.result, stripUnsafeInputs(lastCall.input))

\* the status the claims give each tag that is no operator
ClaimedTagStatus(tag) ==
    CASE tag = "Unassigned" -> "UnassignedNetworkCode"
      [] tag = "Shared VAS" -> "SharedVASNetworkCode"
      [] tag = "Withdrawn" -> "WithdrawnNetworkCode"
      [] tag = "Reserved" -> "ReservedNetworkCode"
      [] tag = "Returned" -> "ReturnedNetworkCode"

\* the outcome of a number whose sub-range has a tag that is no operator
SpecialOutcomeOf(result, s) ==
    /\ ~result.validationSucceeded
    /\ ParsedAs(result, s)
    /\ result.validationStatus = ClaimedTagStatus(result.telcoNumberAllocation.telco)
    /\ CodeOf(s) = 700 => result.validationStatus = "SharedVASNetworkCode"

FormatNationals ==
    {National(803, 1234567), National(700, 1234567), National(702, 999999),
     National(702, 2000000), National(909, 0), National(711, 1234567),
     National(503, 1234567), National(234, 8031234),
     <<"0", "7", "0">> \o SubscriberDigits(1234567)}

\* two runs differ in nothing but the input they echo
SameButInput(a, b) ==
    /\ a.threw = b.threw
    /\ a.steps = b.steps
    /\ a.threw \/
        /\ a.result.validationStatus = b.result.validationStatus
        /\ a.result.validationSucceeded = b.result.validationSucceeded
        /\ a.result.mobileNumber = b.result.mobileNumber
        /\ a.result.telcoNumberAllocation = b.result.telcoNumberAllocation

ValidateNow(x) ==
    validate(x, validationTriggeringFlags, mobileNumberingPlan, requestTimestamps,
             now, rateLimit)

\* C4: on a validator in any state, the three formats of a ten-digit national
\* number N, "0"+N, "234"+N and "+234"+N, get the same status, succeeded flag,
\* parsed number and allocation; the outcomes differ in the echoed input only
C4_FormatEquivalence ==
    \A n \in FormatNationals :
        /\ SameButInput(ValidateNow(Local(n)), ValidateNow(International(n)))
        /\ SameButInput(ValidateNow(Local(n)), ValidateNow(InternationalPlus(n)))
        /\ ValidateNow(Local(n)).result.userProvidedDigits = Local(n)
        /\ ValidateNow(International(n)).result.userProvidedDigits = International(n)
        /\ ValidateNow(InternationalPlus(n)).result.userProvidedDigits
                = InternationalPlus(n)

\* a validator that has errored and holds a twelve-digit previous input, so that
\* the local format is typed backward and the international ones forward, gets
\* +234 803 123 4567
C4_Witness ==
    /\ lastCall.called
    /\ lastCall.input = InternationalPlus(National(803, 1234567))
    /\ Status(lastCall) = "Success"
    /\ lastCall.flagsBefore.hasPreviouslyErrored
    /\ Len(lastCall.flagsBefore.previousUserInput) = 12

\* C5: a call on a validator whose observers do not throw does not throw; its
\* status is one of the twelve, and succeeded is false whenever it is not Success
C5_NeverThrows ==
    (/\ lastCall.called
     /\ \A i \in 1..Len(listeners) : ~CallbackThrows(listeners[i]))
        => /\ ~lastCall.threw
           /\ Cardinality(MobileValidationStatus) = 12
           /\ Status(lastCall) \in MobileValidationStatus
           /\ Status(lastCall) # "Success" => ~lastCall.result.validationSucceeded
           /\ ~lastCall.result.validationSucceeded => Status(lastCall) # "Success"

\* undefined, validated on a validator that has an observer and has loaded 702
C5_Witness ==
    /\ lastCall.called
    /\ lastCall.input = Undefined
    /\ listeners # <<>>
    /\ 702 \in searched
    /\ ~lastCall.threw
    /\ Status(lastCall) = "ContainsNonNumericChars"


\* the callbacks a call notified, in the order it notified them
NotifiedCallbacks(call) == [i \in 1..Len(call.notified) |-> call.notified[i][1]]

\* C6: when an observer throws while it is notified, the exception does not leave
\* validate, every registered observer is still notified of the outcome, and the
\* outcome is the one a validator without observers gives
C6_ObserverIsolation ==
    (/\ lastCall.called
     /\ \E i \in 1..Len(lastCall.notified) : CallbackThrows(lastCall.notified[i][1]))
        => /\ ~lastCall.threw
           /\ NotifiedCallbacks(lastCall) = listeners
           /\ \A i \in 1..Len(lastCall.notified) :
                    lastCall.notified[i][2] = lastCall.result
           /\ lastCall.result =
                validate(lastCall.input, lastCall.flagsBefore, mobileNumberingPlan,
                         lastCall.timestampsBefore, now, rateLimit).result

\* C7: every call, whatever its outcome, notifies each registered observer
\* once, in the order of registration and before it returns, of the outcome it
\* returns
C7_EveryCallNotifies ==
    lastCall.called
        => /\ ~lastCall.threw
           /\ NotifiedCallbacks(lastCall) = listeners
           /\ \A i \in 1..Len(lastCall.notified) :
                    lastCall.notified[i][2] = lastCall.result


---------------------------------------------------------------------------
(* The numbering plan                                                      *)

\* the allocations of the plan data of a code
AllocationsOf(code) ==
    {loadNetworkCodeData(code)[i] : i \in 1..Len(loadNetworkCodeData(code))}

\* lower <= n <= upper
Contains(range, n) == NumLeq(range.lowerBound, n) /\ NumLeq(n, range.upperBound)

SearchNow(n) == search(mobileNumberingPlan, n)

\* C8: whatever codes earlier searches have materialized, search(n) does not
\* throw; it returns the allocation of code n div 10^7 whose range contains n,
\* and not-found when the code is not valid or no allocation of it contains n;
\* the lower bound, the upper bound and the midpoint of every allocation
\* resolve to that allocation
C8_SearchCorrect ==
    /\ \A n \in AllNumbers :
         LET holders == {a \in AllocationsOf(n.hi) : Contains(a.localNumberRange, n)}
         IN  /\ ~SearchNow(n).threw
             /\ IF n.hi \notin NetworkAccessCode \/ holders = {}
                THEN SearchNow(n).result = null
                ELSE /\ SearchNow(n).result \in holders
                     /\ SearchNow(n).result.networkAccessCode = n.hi
    /\ \A code \in NetworkAccessCode : \A a \in AllocationsOf(code) :
         /\ SearchNow(a.localNumberRange.lowerBound).result = a
         /\ SearchNow(a.localNumberRange.upperBound).result = a
         /\ SearchNow(Midpoint(a.localNumberRange.lowerBound,
                               a.localNumberRange.upperBound)).result = a

\* 0702 200 0199, the upper bound of the shortest sub-range, searched on a plan
\* that has materialized 702 and 803 and has been asked for an invalid code
C8_Witness ==
    /\ lastSearch.searched
    /\ lastSearch.localNumber = Num(702, 2000199)
    /\ lastSearch.result # null
    /\ lastSearch.result.telco = "Interconnect Clearinghouse"
    /\ {702, 803, 711} \subseteq searched
    /\ lastSearch.planBefore.initialized
    /\ lastSearch.planBefore.networkCodeMap[702] # <<>>

\* the allocation lists a state holds for a code: the one the plan data gives
\* and the one the index has stored
ListsOf(code) ==
    {loadNetworkCodeData(code)}
    \cup (IF code \in DOMAIN mobileNumberingPlan.networkCodeMap
          THEN {mobileNumberingPlan.networkCodeMap[code]} ELSE {})

\* C9: the top-level range of every valid code is [code*10^7, code*10^7+9999999],
\* 10^7 numbers; the range of every allocation lies within it; the allocations
\* of a code do not overlap and are stored in ascending order
C9_RangesPartition ==
    \A code \in NetworkAccessCode :
        LET top == getLocalNumberRange(code)
        IN  /\ top.lowerBound = Num(code, 0)
            /\ top.upperBound = Num(code, LimbBase - 1)
            /\ top.upperBound.hi = top.lowerBound.hi
            /\ top.upperBound.lo - top.lowerBound.lo + 1 = LimbBase
            /\ ~loadNetworkCodeDataThrows(code)
            /\ \A list \in ListsOf(code) :
                /\ \A i \in 1..Len(list) :
                    /\ list[i].networkAccessCode = code
                    /\ NumLeq(top.lowerBound, list[i].localNumberRange.lowerBound)
                    /\ NumLeq(list[i].localNumberRange.lowerBound,
                              list[i].localNumberRange.upperBound)
                    /\ NumLeq(list[i].localNumberRange.upperBound, top.upperBound)
                /\ \A i, j \in 1..Len(list) :
                    i < j => NumLess(list[i].localNumberRange.upperBound,
                                     list[j].localNumberRange.lowerBound)

\* the index holds the eight sub-ranges of 702 and the lists of two more codes
C9_Witness ==
    /\ mobileNumberingPlan.initialized
    /\ Len(mobileNumberingPlan.networkCodeMap[702]) = 8
    /\ mobileNumberingPlan.networkCodeMap[803] # <<>>
    /\ mobileNumberingPlan.networkCodeMap[700] # <<>>
    /\ mobileNumberingPlan.networkCodeMap[900] = <<>>

\* the codes whose list a plan has built
Built(plan) ==
    {c \in DOMAIN plan.networkCodeMap : plan.networkCodeMap[c] # <<>>}

\* C10: the codes whose list has been built are the valid codes some earlier
\* search asked for; each was built once, on the first search for it, and is the
\* list it was built as; a search leaves every built list as it was and builds
\* nothing but the list of its own code, and nothing when that code is invalid
C10_LazyOnce ==
    /\ Built(mobileNumberingPlan) = searched \cap NetworkAccessCode
    /\ DOMAIN loadCount = searched \cap NetworkAccessCode
    /\ \A c \in DOMAIN loadCount : loadCount[c] = 1
    /\ \A c \in Built(mobileNumberingPlan) :
            mobileNumberingPlan.networkCodeMap[c] = loadNetworkCodeData(c)
    /\ lastSearch.searched =>
        /\ \A c \in Built(lastSearch.planBefore) :
                mobileNumberingPlan.networkCodeMap[c]
                    = lastSearch.planBefore.networkCodeMap[c]
        /\ Built(mobileNumberingPlan) \ Built(lastSearch.planBefore)
                \subseteq {lastSearch.localNumber.hi} \cap NetworkAccessCode
        /\ lastSearch.localNumber.hi \in NetworkAccessCode
                => lastSearch.localNumber.hi \in Built(mobileNumberingPlan)

\* a second search for 702, after searches for 803 and for the invalid code 711
C10_Witness ==
    /\ lastSearch.searched
    /\ lastSearch.localNumber.hi = 702
    /\ 702 \in Built(lastSearch.planBefore)
    /\ loadCount[702] = 1
    /\ searched = {702, 803, 711}
    /\ Built(mobileNumberingPlan) = {702, 803}


---------------------------------------------------------------------------
(* A fresh validator that is fed a local number one keystroke at a time    *)

\* the local numbers that are typed
KeystrokeNumbers ==
    {Local(National(803, 1234567)), Local(National(805, 7654321)),
     Local(National(814, 2223334)), Local(National(702, 999999)),
     Local(National(700, 1234567)), Local(National(708, 5550001)),
     Local(National(909, 8765432)), Local(National(911, 1112223)),
     Local(National(916, 9999999)), Local(National(906, 4040404)),
     Local(National(810, 3216540)), Local(National(701, 6060606))}

InitKeystrokes == Init /\ rateLimit = 0

\* validate(the next longer prefix of the number); the first call is validate("0")
Keystroke(number) ==
    /\ lastCall.called => /\ Len(lastCall.input) < Len(number)
                          /\ lastCall.input = SubSeq(number, 1, Len(lastCall.input))
    /\ Validate(SubSeq(number, 1, IF lastCall.called THEN Len(lastCall.input) + 1 ELSE 1))

NextKeystrokes == \E number \in KeystrokeNumbers : Keystroke(number)

SpecKeystrokes == InitKeystrokes /\ [][NextKeystrokes]_vars

\* a call that went on to the full validation: the membership check of the code
\* or the search of the plan
FullValidation(call) ==
    \E i \in 1..Len(call.steps) : call.steps[i] \in {"isNetworkCodeValid", "search"}

\* C11: every keystroke "0", "08", "080", ... of a local number typed into a
\* fresh validator gets IncorrectNumberOfDigits and no full validation, until
\* the input is eleven characters long
C11_KeystrokesNotEnoughDigits ==
    (lastCall.called /\ Len(lastCall.input) < 11)
        => /\ Status(lastCall) = "IncorrectNumberOfDigits"
           /\ ~FullValidation(lastCall)


---------------------------------------------------------------------------
(* A validator without a rate limit that is given the numbers at the       *)
(* boundaries of the sub-ranges of 702                                     *)

\* the first and the last subscriber number of every sub-range of 702, and
\* three numbers inside the first sub-range
BoundarySubscribers ==
    UNION {{NetworkCodeData(702)[i][2], NetworkCodeData(702)[i][3]}
           : i \in 1..Len(NetworkCodeData(702))}
    \cup {1, 499999, 999998}

BoundaryInputs ==
    {Local(National(702, subscriber)) : subscriber \in BoundarySubscribers}
    \cup {International(National(702, 999999)), International(National(702, 1000000)),
          InternationalPlus(National(702, 999999)),
          InternationalPlus(National(702, 1000000))}

NextBoundaries ==
    \/ \E userProvidedDigits \in BoundaryInputs : Validate(userProvidedDigits)
    \/ OnValidationResult("callback")
    \/ Unsubscribe("callback")

SpecBoundaries == InitKeystrokes /\ [][NextBoundaries]_vars

\* the status and the tags a result carries are those of the tag of a sub-range
ResolvesTo(result, tag) ==
    /\ result.telcoNumberAllocation # undefined
    /\ result.telcoNumberAllocation.telco = tag
    /\ result.validationStatus = (IF tag \in NonOperatorTags
                                  THEN ClaimedTagStatus(tag) ELSE "Success")
    /\ result.validationSucceeded = (tag \notin NonOperatorTags)
    /\ result.mobileNumber # undefined
    /\ result.mobileNumber.telco = (IF tag \in NonOperatorTags THEN "" ELSE tag)

---------------------------------------------------------------------------
(* The rejections of the raw input                                         *)

\* the characters the fast reject lets pass
ClaimedAllowedChars ==
    Digits \cup {"o", "O", "(", ")", "+", "-"} \cup WhitespaceChars

\* the call got as far as the rate limiter and was turned back there
Blocked(call) ==
    /\ ~(Falsy(call.input) \/ fastReject(call.input))
    /\ ~Admitted(call)

\* the raw input is empty, null or undefined, too long, holds a character that
\* is not allowed, or is made of formatting characters only
ClaimedNonNumeric(x) ==
    \/ Falsy(x)
    \/ Len(x) = 0
    \/ Len(x) > 50
    \/ \E i \in 1..Len(x) : x[i] \notin ClaimedAllowedChars
    \/ stripUnsafeInputs(x) = <<>>

---------------------------------------------------------------------------
(* The value classes and the static functions, called by themselves        *)

\* bounds of ranges: numbers of two codes, at the ends of the codes' ranges
RangeBounds ==
    {Num(code, lo) : code \in {702, 803}, lo \in {0, 1, 5000000, LimbBase - 1}}

\* subscriber number bounds: below, at and above the ends of a code's range
SubscriberBounds == {-1, 0, 1, 5000000, LimbBase - 1, LimbBase}

\* the arguments of the result's constructor
ResultStatuses == {"Success", "IncorrectNumberOfDigits", "WithdrawnNetworkCode"}
ResultNumbers == {undefined, MobileNumber(Local(National(803, 1234567)))}

\* what a constructor leaves: the object, or nothing when it threw
Constructed(op, args, threw, object) ==
    [op |-> op, args |-> args, threw |-> threw,
     object |-> IF threw THEN undefined ELSE object]

\* new MobileNumberRange(lowerBound, upperBound)
NewMobileNumberRange(lowerBound, upperBound) ==
    /\ lastOp' = Constructed("MobileNumberRange", <<lowerBound, upperBound>>,
                             MobileNumberRangeThrows(lowerBound, upperBound),
                             MobileNumberRange(lowerBound, upperBound))
    /\ UNCHANGED <<validationTriggeringFlags, mobileNumberingPlan, listeners, rateLimit,
                   requestTimestamps, now, lastCall, loadCount, searched, lastSearch,
                   admittedAt, networkAccessCodeUtil, instanceB, alone, released,
                   fallbackEmitter>>

\* new TelcoNumberAllocation(networkAccessCode, telco, {lower, upper})
NewTelcoNumberAllocation(networkAccessCode, telco, lower, upper) ==
    /\ lastOp' = Constructed("TelcoNumberAllocation",
                             <<networkAccessCode, telco, lower, upper>>,
                             TelcoNumberAllocationThrows(networkAccessCode, lower, upper),
                             TelcoNumberAllocation(networkAccessCode, telco, lower, upper))
    /\ UNCHANGED <<validationTriggeringFlags, mobileNumberingPlan, listeners, rateLimit,
                   requestTimestamps, now, lastCall, loadCount, searched, lastSearch,
                   admittedAt, networkAccessCodeUtil, instanceB, alone, released,
                   fallbackEmitter>>

\* new MobileNumberValidationResult(digits, status, succeeded, mobileNumber)
NewMobileNumberValidationResult(status, succeeded, mobileNumber) ==
    /\ lastOp' = Constructed("MobileNumberValidationResult",
                             <<status, succeeded, mobileNumber>>,
                             MobileNumberValidationResultThrows(succeeded, mobileNumber),
                             MobileNumberValidationResult(<<>>, status, succeeded,
                                                          mobileNumber, undefined))
    /\ UNCHANGED <<validationTriggeringFlags, mobileNumberingPlan, listeners, rateLimit,
                   requestTimestamps, now, lastCall, loadCount, searched, lastSearch,
                   admittedAt, networkAccessCodeUtil, instanceB, alone, released,
                   fallbackEmitter>>

\* the characters of the raw inputs: one or two of each class the function
\* tells apart, and a letter it lets through
RawChars == {"0", "7", "+", " ", "NBSP", "\t", "BEL", "(", ")", "-", "o", "O", "a"}

\* MAX_INPUT_LENGTH - 1 characters, all kept or all removed
LongPrefixes == {Zeros(MAX_INPUT_LENGTH - 1), Spaces(MAX_INPUT_LENGTH - 1)}

\* raw inputs: nothing, up to two characters, and strings that end one
\* character beyond MAX_INPUT_LENGTH
RawInputs ==
    {Undefined, <<>>}
    \cup {<<c>> : c \in RawChars}
    \cup {<<c, d>> : c \in RawChars, d \in RawChars}
    \cup {prefix \o <<c, d>> : prefix \in LongPrefixes, c \in RawChars, d \in RawChars}

\* ValidatorSecurity.stripUnsafeInputs(userProvidedDigits)
StripUnsafeInputs(userProvidedDigits) ==
    /\ lastOp' = Constructed("stripUnsafeInputs", <<userProvidedDigits>>, FALSE,
                             stripUnsafeInputs(userProvidedDigits))
    /\ UNCHANGED <<validationTriggeringFlags, mobileNumberingPlan, listeners, rateLimit,
                   requestTimestamps, now, lastCall, loadCount, searched, lastSearch,
                   admittedAt, networkAccessCodeUtil, instanceB, alone, released,
                   fallbackEmitter>>

\* stripUnsafeInputs of what the call before returned
StripUnsafeInputsAgain ==
    /\ lastOp.op = "stripUnsafeInputs"
    /\ lastOp' = Constructed("stripUnsafeInputsAgain", <<lastOp.object>>, FALSE,
                             stripUnsafeInputs(lastOp.object))
    /\ UNCHANGED <<validationTriggeringFlags, mobileNumberingPlan, listeners, rateLimit,
                   requestTimestamps, now, lastCall, loadCount, searched, lastSearch,
                   admittedAt, networkAccessCodeUtil, instanceB, alone, released,
                   fallbackEmitter>>

\* ranges that lie apart, that touch in one number, that overlap, that lie
\* within one another, and one that runs from one network code into the next
ComparedRanges ==
    {MobileNumberRange(Num(803, lower), Num(803, upper)) :
        lower \in {0, 5}, upper \in {6, 10}}
    \cup {MobileNumberRange(Num(803, 0), Num(803, 5)),
          MobileNumberRange(Num(803, 7), Num(803, 10)),
          MobileNumberRange(Num(802, LimbBase - 1), Num(803, 0))}

\* a.compareTo(b), b.compareTo(a), b.compareTo(c) and a.compareTo(c)
CompareTo(a, b, c) ==
    /\ lastOp' = [op |-> "compareTo", args |-> <<a, b, c>>,
                  ab |-> compareTo(a, b), ba |-> compareTo(b, a),
                  bc |-> compareTo(b, c), ac |-> compareTo(a, c)]
    /\ UNCHANGED <<validationTriggeringFlags, mobileNumberingPlan, listeners, rateLimit,
                   requestTimestamps, now, lastCall, loadCount, searched, lastSearch,
                   admittedAt, networkAccessCodeUtil, instanceB, alone, released,
                   fallbackEmitter>>

NextValues ==
    \/ \E a, b, c \in ComparedRanges : CompareTo(a, b, c)
    \/ \E userProvidedDigits \in RawInputs : StripUnsafeInputs(userProvidedDigits)
    \/ StripUnsafeInputsAgain
    \/ \E lowerBound, upperBound \in RangeBounds :
            NewMobileNumberRange(lowerBound, upperBound)
    \/ \E networkAccessCode \in {702, 803} : \E lower, upper \in SubscriberBounds :
            NewTelcoNumberAllocation(networkAccessCode, "MTN", lower, upper)
    \/ \E status \in ResultStatuses : \E succeeded \in BOOLEAN :
       \E mobileNumber \in ResultNumbers :
            NewMobileNumberValidationResult(status, succeeded, mobileNumber)

SpecValues == InitKeystrokes /\ [][NextValues]_vars

\* C14: a range with lower >= upper, an allocation whose range is not within
\* the range of its code, and a result with succeeded = true and no parsed
\* number throw and leave no object; the others are built, so every result
\* that exists with succeeded = true has a parsed number
C14_ConstructorsThrow ==
    /\ lastOp.op = "MobileNumberRange" =>
        /\ lastOp.threw <=> ~NumLess(lastOp.args[1], lastOp.args[2])
        /\ lastOp.threw <=> lastOp.object = undefined
        /\ ~lastOp.threw => /\ lastOp.object.lowerBound = lastOp.args[1]
                            /\ lastOp.object.upperBound = lastOp.args[2]
    /\ lastOp.op = "TelcoNumberAllocation" =>
        /\ lastOp.threw <=> \/ lastOp.args[3] < 0
                            \/ lastOp.args[4] > LimbBase - 1
                            \/ lastOp.args[3] >= lastOp.args[4]
        /\ lastOp.threw <=> lastOp.object = undefined
        /\ ~lastOp.threw =>
            /\ lastOp.object.localNumberRange.lowerBound = Num(lastOp.args[1], lastOp.args[3])
            /\ lastOp.object.localNumberRange.upperBound = Num(lastOp.args[1], lastOp.args[4])
    /\ lastOp.op = "MobileNumberValidationResult" =>
        /\ lastOp.threw <=> (lastOp.args[2] /\ lastOp.args[3] = undefined)
        /\ lastOp.threw <=> lastOp.object = undefined
        /\ (~lastOp.threw /\ lastOp.object.validationSucceeded)
                => lastOp.object.mobileNumber # undefined

\* a range of one number, which the constructor refuses
C14_Witness ==
    /\ lastOp.op = "MobileNumberRange"
    /\ lastOp.args[1] = lastOp.args[2]
    /\ lastOp.threw


\* how many calls were admitted in the 60 seconds from the given time on
AdmittedInWindow(from) ==
    Cardinality({j \in 1..Len(admittedAt) :
                    admittedAt[j] >= from /\ admittedAt[j] <= from + WindowSizeMs})

\* the last call came to the rate-limit step of a validator that has a limiter
AtRateLimitStep(call) ==
    call.called /\ rateLimit > 0 /\ Reached(call.steps, "checkHasExceededRateLimit")

\* C15: with a rate limit of N > 0, no window of 60 seconds holds more than N
\* admitted calls; a call that comes to the rate-limit step is refused exactly
\* when N calls were admitted in the 60 seconds before it, and then it returns
\* RateLimitExceeded with succeeded = false and no parsed number; without a
\* rate limit no call returns RateLimitExceeded
C15_RateLimit ==
    /\ rateLimit > 0 =>
        \A i \in 1..Len(admittedAt) : AdmittedInWindow(admittedAt[i]) <= rateLimit
    /\ AtRateLimitStep(lastCall) =>
        IF Status(lastCall) = "RateLimitExceeded"
        THEN /\ AdmittedInWindow(now - WindowSizeMs) >= rateLimit
             /\ ~lastCall.result.validationSucceeded
             /\ lastCall.result.mobileNumber = undefined
        ELSE /\ admittedAt # <<>>
             /\ admittedAt[Len(admittedAt)] = now
             /\ AdmittedInWindow(now - WindowSizeMs) <= rateLimit
    /\ (lastCall.called /\ rateLimit = 0) => Status(lastCall) # "RateLimitExceeded"

\* a call refused exactly 60 seconds after an admitted one
C15_Witness ==
    /\ AtRateLimitStep(lastCall)
    /\ Status(lastCall) = "RateLimitExceeded"
    /\ \E j \in 1..Len(admittedAt) : admittedAt[j] = now - WindowSizeMs


---------------------------------------------------------------------------
(* Two validators of one process                                           *)

\* what the first validator is called with: a number and the same one digit short
InstanceInputs ==
    {Local(National(803, 1234567)),
     SubSeq(Local(National(803, 1234567)), 1, 10)}

\* what the second one is called with: a number of another code, and a letter
InstanceInputsB ==
    {International(National(702, 1234567)), <<"a">>}

\* the fields of a validator kept as a record, after a validate call
InstanceAfter(instance, userProvidedDigits, run, emitted) ==
    [instance EXCEPT !.validationTriggeringFlags = run.flags,
                     !.mobileNumberingPlan = run.plan,
                     !.requestTimestamps = run.timestamps,
                     !.outcome = [called |-> TRUE,
                                  input |-> userProvidedDigits,
                                  threw |-> run.threw \/ emitted.threw,
                                  result |-> run.result,
                                  notified |-> emitted.notified]]

\* the static fields after a validate call that ran the given steps
UtilAfter(util, steps) ==
    IF Reached(steps, "isNetworkCodeValid") THEN initialize(util) ELSE util

\* the same call on the validator that has no second validator beside it
AloneValidate(userProvidedDigits) ==
    \E run \in {validate(userProvidedDigits,
                         alone.validator.validationTriggeringFlags,
                         alone.validator.mobileNumberingPlan,
                         alone.validator.requestTimestamps, now,
                         alone.validator.rateLimit)} :
    \E emitted \in {emitOf(run, alone.validator.listeners)} :
        alone' = [validator |-> InstanceAfter(alone.validator, userProvidedDigits,
                                              run, emitted),
                  networkAccessCodeUtil |-> UtilAfter(alone.networkAccessCodeUtil,
                                                      run.steps)]

\* a.validate(userProvidedDigits)
ValidateA(userProvidedDigits) ==
    /\ ValidateStep(userProvidedDigits)
    /\ AloneValidate(userProvidedDigits)
    /\ UNCHANGED <<lastOp, instanceB, fallbackEmitter>>

\* a.onValidationResult(callback)
OnValidationResultA(callback) ==
    /\ OnValidationResultStep(callback)
    /\ alone' = [alone EXCEPT !.validator.listeners = Append(@, callback)]
    /\ UNCHANGED <<lastOp, instanceB, fallbackEmitter>>

\* a.dispose()
DisposeA ==
    /\ DisposeStep
    /\ alone' = [alone EXCEPT !.validator.listeners = <<>>]
    /\ UNCHANGED <<lastOp, instanceB, fallbackEmitter>>

\* b.validate(userProvidedDigits): b's own fields and the static ones
ValidateB(userProvidedDigits) ==
    \E run \in {validate(userProvidedDigits, instanceB.validationTriggeringFlags,
                         instanceB.mobileNumberingPlan, instanceB.requestTimestamps,
                         now, instanceB.rateLimit)} :
    \E emitted \in {emitOf(run, instanceB.listeners)} :
        /\ instanceB' = InstanceAfter(instanceB, userProvidedDigits, run, emitted)
        /\ networkAccessCodeUtil' = UtilAfter(networkAccessCodeUtil, run.steps)
        /\ UNCHANGED <<validationTriggeringFlags, mobileNumberingPlan, listeners,
                       rateLimit, requestTimestamps, now, lastCall, loadCount,
                       searched, lastSearch, lastOp, admittedAt, alone, released,
                   fallbackEmitter>>

\* b.onValidationResult(callback)
OnValidationResultB(callback) ==
    /\ \A i \in 1..Len(instanceB.listeners) : instanceB.listeners[i] # callback
    /\ instanceB' = [instanceB EXCEPT !.listeners = Append(@, callback)]
    /\ UNCHANGED <<validationTriggeringFlags, mobileNumberingPlan, listeners,
                   rateLimit, requestTimestamps, now, lastCall, loadCount,
                   searched, lastSearch, lastOp, admittedAt, alone,
                   networkAccessCodeUtil, released, fallbackEmitter>>

\* b.dispose()
DisposeB ==
    /\ instanceB.listeners # <<>>
    /\ instanceB' = [instanceB EXCEPT !.listeners = <<>>]
    /\ UNCHANGED <<validationTriggeringFlags, mobileNumberingPlan, listeners,
                   rateLimit, requestTimestamps, now, lastCall, loadCount,
                   searched, lastSearch, lastOp, admittedAt, alone,
                   networkAccessCodeUtil, released, fallbackEmitter>>

NextInstances ==
    \/ \E userProvidedDigits \in InstanceInputs : ValidateA(userProvidedDigits)
    \/ OnValidationResultA("callback")
    \/ DisposeA
    \/ \E userProvidedDigits \in InstanceInputsB : ValidateB(userProvidedDigits)
    \/ OnValidationResultB("callback")
    \/ DisposeB
    \/ Tick

SpecInstances == Init /\ [][NextInstances]_vars

\* C16: whatever validate, subscribe and dispose calls are made on a second
\* validator B in between, the typing flags and previous input, the rate-limit
\* history, the observers and the materialized codes of A, what A's last
\* validate call returned and notified, and what A finds in the static map of
\* the network codes are those of a validator A that runs alone
C16_InstancesIndependent ==
    /\ validationTriggeringFlags = alone.validator.validationTriggeringFlags
    /\ requestTimestamps = alone.validator.requestTimestamps
    /\ listeners = alone.validator.listeners
    /\ mobileNumberingPlan = alone.validator.mobileNumberingPlan
    /\ lastCall.called =>
        /\ lastCall.input = alone.validator.outcome.input
        /\ lastCall.result = alone.validator.outcome.result
        /\ lastCall.threw = alone.validator.outcome.threw
        /\ lastCall.notified = alone.validator.outcome.notified
    /\ \A code \in {700, 711, 803} :
        /\ networkCodeMapHas(networkAccessCodeUtil, code)
                = networkCodeMapHas(alone.networkAccessCodeUtil, code)
        /\ networkCodeMapHas(networkAccessCodeUtil, code) = isNetworkCodeValid(code)

\* A validates a number after B, with another history, has filled the static
\* map and used up its own rate limit
C16_Witness ==
    /\ lastCall.called /\ Status(lastCall) = "Success"
    /\ instanceB.outcome.called
    /\ instanceB.outcome.result.validationStatus = "RateLimitExceeded"
    /\ instanceB.validationTriggeringFlags # validationTriggeringFlags
    /\ instanceB.mobileNumberingPlan # mobileNumberingPlan
    /\ instanceB.requestTimestamps # requestTimestamps


\* the callbacks registered now
Registered == {listeners[i] : i \in 1..Len(listeners)}

\* the callbacks the last call invoked
Invoked(call) == {call.notified[i][1] : i \in 1..Len(call.notified)}

\* after unsubscribe or dispose the callbacks taken off are not invoked by a
\* later validate call
ReleasedNotInvoked ==
    lastCall.called => Invoked(lastCall) \cap released = {}

\* C17: a validate call made after a callback's unsubscribe function or
\* dispose() was invoked does not invoke that callback; it still invokes every
\* callback that is registered, and it returns the outcome a validator without
\* observers returns
C17_UnsubscribeAndDispose ==
    (lastCall.called /\ released # {})
        => /\ Invoked(lastCall) \cap released = {}
           /\ Registered \subseteq Invoked(lastCall)
           /\ ~lastCall.threw
           /\ lastCall.result =
                validate(lastCall.input, lastCall.flagsBefore, mobileNumberingPlan,
                         lastCall.timestampsBefore, now, rateLimit).result

\* a call after an unsubscribe that invokes the callback still registered
C17_Reached ==
    /\ lastCall.called
    /\ released # {}
    /\ Invoked(lastCall) = Registered
    /\ Registered # {}


\* the characters the claim says never come out of the normalization
ClaimedStripped == {"+", " ", "\t", "\n", "NBSP", "(", ")", "-", "BEL", "o", "O"}

\* C18: normalizing what the normalization returned gives the same string
\* back; every string it returns has at most 50 characters and none of '+',
\* whitespace, '(', ')', '-', a control character, 'o' and 'O'
C18_NormalizeIdempotent ==
    /\ lastOp.op = "stripUnsafeInputsAgain" => lastOp.object = lastOp.args[1]
    /\ lastOp.op \in {"stripUnsafeInputs", "stripUnsafeInputsAgain"} =>
        /\ Len(lastOp.object) <= 50
        /\ \A i \in 1..Len(lastOp.object) : lastOp.object[i] \notin ClaimedStripped

\* the second normalization of an input that was cut at 50 characters and
\* lost characters of its own
C18_Witness ==
    /\ lastOp.op = "stripUnsafeInputsAgain"
    /\ Len(lastOp.args[1]) = 49
    /\ lastOp.object = lastOp.args[1]


\* the bounds of two ranges: if the ranges share a number they share one of these
BoundsOf(a, b) == {a.lowerBound, a.upperBound, b.lowerBound, b.upperBound}

\* the closed ranges a and b have a number in common
ShareNumber(a, b) ==
    \E n \in BoundsOf(a, b) :
        /\ NumLeq(a.lowerBound, n) /\ NumLeq(n, a.upperBound)
        /\ NumLeq(b.lowerBound, n) /\ NumLeq(n, b.upperBound)

\* C19: a.compareTo(b) is -1 (before) exactly when a.upper < b.lower, 1 (after)
\* exactly when b.upper < a.lower, and 0 (overlapping) otherwise, which is
\* exactly when the closed ranges share a number; a is before b exactly when b
\* is after a, and overlapping is symmetric
C19_CompareTo ==
    lastOp.op = "compareTo" =>
        LET a == lastOp.args[1]
            b == lastOp.args[2]
        IN  /\ lastOp.ab \in {-1, 0, 1}
            /\ lastOp.ab = -1 <=> NumLess(a.upperBound, b.lowerBound)
            /\ lastOp.ab = 1 <=> NumLess(b.upperBound, a.lowerBound)
            /\ lastOp.ab = 0 <=> ShareNumber(a, b)
            /\ lastOp.ab = -1 <=> lastOp.ba = 1
            /\ lastOp.ab = 1 <=> lastOp.ba = -1
            /\ lastOp.ab = 0 <=> lastOp.ba = 0

\* overlapping is not transitive: a overlaps b in the one number they touch
\* in, b overlaps c, and a lies before c
C19_Witness ==
    /\ lastOp.op = "compareTo"
    /\ lastOp.args[1].upperBound = lastOp.args[2].lowerBound
    /\ lastOp.ab = 0
    /\ lastOp.bc = 0
    /\ lastOp.ac = -1


---------------------------------------------------------------------------
(* One validator without a rate limit, called again and again              *)

\* the inputs of the validator and, for the way back from a longer input, an
\* international number with one and with two digits too many
HistoryInputs ==
    ValidateInputs
    \cup {International(National(803, 1234567)) \o <<"8">>,
          International(National(803, 1234567)) \o <<"8", "8">>}

NextHistory == \E userProvidedDigits \in HistoryInputs : Validate(userProvidedDigits)

SpecHistory == InitPlan /\ [][NextHistory]_vars

\* the same call on a validator just built, without a rate limit
FreshValidate(userProvidedDigits) ==
    validate(userProvidedDigits, NewValidationTriggeringFlags, NewMobileNumberingPlan,
             <<>>, 0, 0)

\* C20: without a rate limit, whatever calls were made before, validate(x)
\* returns the outcome (status, succeeded, parsed number, allocation) that a
\* validator just built returns for x, and throws no more than that one does;
\* so a number that is valid succeeds after any failed call
C20_HistoryIndependent ==
    lastCall.called
        => /\ lastCall.result = FreshValidate(lastCall.input).result
           /\ lastCall.threw = FreshValidate(lastCall.input).threw

\* a call that, because of the calls before it, takes another way through
\* validate than on a validator just built: after a longer input and a failure
\* the completeness check lets ten digits pass
C20_Witness ==
    /\ lastCall.called
    /\ lastCall.flagsBefore.hasPreviouslyErrored
    /\ Len(lastCall.flagsBefore.previousUserInput) > Len(lastCall.input)
    /\ mobileNumberingPlan.initialized
    /\ lastCall.steps # FreshValidate(lastCall.input).steps


\* C21: after every validate call the stored previous input is the normalized
\* input of that call, validated (wasLastValidationSuccessful) is that call's
\* succeeded, and hasPreviouslyErrored is set if the call failed
C21_FlagsUpdatedEveryCall ==
    (lastCall.called /\ ~lastCall.threw)
        => /\ validationTriggeringFlags.previousUserInput
                = stripUnsafeInputs(OrEmpty(lastCall.input))
           /\ validationTriggeringFlags.validated = lastCall.result.validationSucceeded
           /\ ~lastCall.result.validationSucceeded
                => validationTriggeringFlags.hasPreviouslyErrored

\* the same for the calls that come to the completeness check
C21_AtCompletenessCheck ==
    (lastCall.called /\ ~lastCall.threw
     /\ Reached(lastCall.steps, "areThereEnoughDigitsToValidate"))
        => /\ validationTriggeringFlags.previousUserInput
                = stripUnsafeInputs(OrEmpty(lastCall.input))
           /\ validationTriggeringFlags.validated = lastCall.result.validationSucceeded
           /\ ~lastCall.result.validationSucceeded
                => validationTriggeringFlags.hasPreviouslyErrored

\* the flags without the previous input, for every call that publishes
C21_FlagsOfPublished ==
    (lastCall.called /\ ~lastCall.threw /\ Status(lastCall) # "RateLimitExceeded")
        => /\ validationTriggeringFlags.validated = lastCall.result.validationSucceeded
           /\ ~lastCall.result.validationSucceeded
                => validationTriggeringFlags.hasPreviouslyErrored


\* the claim's rule of the completeness check, on the state held before the
\* call: the two flags and the previous input the direction is taken against
ClaimedAttempt(flags, s) ==
    LET flagged == flags.hasPreviouslyErrored \/ flags.validated
        forward == Len(s) >= Len(flags.previousUserInput)
        local == Len(s) >= 1 /\ s[1] = "0"
        international == Len(s) >= 3 /\ SubSeq(s, 1, 3) = <<"2", "3", "4">>
    IN  IF ~flagged
        THEN (local /\ Len(s) >= 11) \/ (international /\ Len(s) >= 13)
        ELSE \/ local /\ forward /\ Len(s) >= 11
             \/ local /\ ~forward /\ Len(s) \in {10, 11}
             \/ international /\ forward /\ Len(s) >= 13
             \/ international /\ ~forward /\ Len(s) \in {12, 13}

\* C22: a call that comes to the completeness check goes on to the length
\* check exactly in the cases the rule names, and in every other case it
\* returns IncorrectNumberOfDigits
C22_CompletenessRule ==
    (lastCall.called /\ Reached(lastCall.steps, "areThereEnoughDigitsToValidate"))
        => IF ClaimedAttempt(lastCall.flagsBefore, stripUnsafeInputs(lastCall.input))
           THEN Reached(lastCall.steps, "expectedCharLength")
           ELSE /\ ~Reached(lastCall.steps, "expectedCharLength")
                /\ Status(lastCall) = "IncorrectNumberOfDigits"

\* ten digits on the way back from a longer input, after an earlier result
C22_Witness ==
    /\ lastCall.called
    /\ lastCall.flagsBefore.hasPreviouslyErrored \/ lastCall.flagsBefore.validated
    /\ Len(lastCall.flagsBefore.previousUserInput) > Len(lastCall.input)
    /\ Len(stripUnsafeInputs(lastCall.input)) = 10
    /\ Reached(lastCall.steps, "expectedCharLength")


\* a non-empty string of digits
IsDigitString(s) == s # <<>> /\ \A i \in 1..Len(s) : s[i] \in Digits

\* the string starts neither with '0' and then 7, 8 or 9 nor with '234' and
\* then 7, 8 or 9
ClaimedForeign(s) ==
    /\ ~(Len(s) >= 2 /\ s[1] = "0" /\ s[2] \in {"7", "8", "9"})
    /\ ~(Len(s) >= 4 /\ SubSeq(s, 1, 3) = <<"2", "3", "4">> /\ s[4] \in {"7", "8", "9"})

\* C23: an input that passes the fast reject, is let through by the rate
\* limiter and is normalized to a non-empty string of digits gets
\* NotNigerianNumber exactly when that string starts neither with '0' and 7, 8
\* or 9 nor with '234' and 7, 8 or 9; no length check is run on it before
C23_ForeignExactly ==
    (/\ lastCall.called
     /\ ~Falsy(lastCall.input) /\ ~fastReject(lastCall.input)
     /\ Admitted(lastCall)
     /\ IsDigitString(stripUnsafeInputs(lastCall.input)))
        => /\ ~lastCall.threw
           /\ (Status(lastCall) = "NotNigerianNumber")
                <=> ClaimedForeign(stripUnsafeInputs(lastCall.input))
           /\ ClaimedForeign(stripUnsafeInputs(lastCall.input))
                => /\ ~Reached(lastCall.steps, "areThereEnoughDigitsToValidate")
                   /\ ~Reached(lastCall.steps, "expectedCharLength")

\* eleven digits that start with 1: a foreign number, whatever its length
C23_Witness ==
    /\ lastCall.called
    /\ Len(lastCall.input) = 11
    /\ lastCall.input[1] = "1"
    /\ Status(lastCall) = "NotNigerianNumber"

\* C23 as the specification words it: every input that is normalized to a
\* non-empty string of digits, whatever the fast reject and the rate limiter say
C23_AsStated ==
    (/\ lastCall.called
     /\ ~Falsy(lastCall.input)
     /\ IsDigitString(stripUnsafeInputs(lastCall.input)))
        => /\ ~lastCall.threw
           /\ (Status(lastCall) = "NotNigerianNumber")
                <=> ClaimedForeign(stripUnsafeInputs(lastCall.input))


\* C24: after validate("") both flags are false, the validator is in the state
\* of a new one, and the call has returned IncorrectNumberOfDigits
C24_EmptyInputResets ==
    (lastCall.called /\ lastCall.input = <<>>)
        => /\ ~validationTriggeringFlags.hasPreviouslyErrored
           /\ ~validationTriggeringFlags.validated
           /\ validationTriggeringFlags = NewValidationTriggeringFlags
           /\ Status(lastCall) = "IncorrectNumberOfDigits"

\* what validate("") and validate() do: ContainsNonNumericChars from the fast
\* reject, hasPreviouslyErrored set, the previous input kept
C24_EmptyInputErrs ==
    (lastCall.called /\ Falsy(lastCall.input))
        => /\ Status(lastCall) = "ContainsNonNumericChars"
           /\ validationTriggeringFlags.hasPreviouslyErrored
           /\ ~validationTriggeringFlags.validated
           /\ validationTriggeringFlags.previousUserInput
                = lastCall.flagsBefore.previousUserInput

\* no call comes to the branch of the completeness check that resets the flags
C24_ResetUnreached ==
    (lastCall.called /\ Reached(lastCall.steps, "areThereEnoughDigitsToValidate"))
        => stripUnsafeInputs(lastCall.input) # <<>>


\* the longest list of allocations a code has, in the plan data and in the
\* plan as the searches so far have materialized it
ListsAtMost(n) ==
    /\ \A code \in NetworkAccessCode : Len(loadNetworkCodeData(code)) <= n
    /\ \A code \in DOMAIN mobileNumberingPlan.networkCodeMap :
            Len(mobileNumberingPlan.networkCodeMap[code]) <= n

\* C25: the scan of search goes over at most 8 sub-ranges: the list of the
\* split code 702 has 8 entries and the list of every other code has one
C25_ScanBounded ==
    /\ ListsAtMost(8)
    /\ \A code \in NetworkAccessCode \ {702} : Len(loadNetworkCodeData(code)) = 1
    /\ Len(loadNetworkCodeData(702)) = 8

\* a search that found its number in the eighth sub-range of 702
C25_Witness ==
    /\ lastSearch.searched
    /\ Len(mobileNumberingPlan.networkCodeMap[702]) = 8
    /\ lastSearch.result = mobileNumberingPlan.networkCodeMap[702][8]

\* C25 as the specification words it: no list has more than 7 entries
C25_AsStated == ListsAtMost(7)


\* the allocations of a code, in the order of the list, cover the subscriber
\* numbers 0..9,999,999 of the code and leave no number out between them
CoversCode(code, allocations) ==
    /\ allocations # <<>>
    /\ allocations[1].localNumberRange.lowerBound = Num(code, 0)
    /\ allocations[Len(allocations)].localNumberRange.upperBound = Num(code, 9999999)
    /\ \A i \in 1..(Len(allocations) - 1) :
            allocations[i + 1].localNumberRange.lowerBound
                = NumAdd(allocations[i].localNumberRange.upperBound, 1)

\* C26: no call returns InvalidSubscriberNumber or UnassignedNetworkCode: a call
\* that passes the membership check finds an allocation, the lists of all codes
\* cover 0..9,999,999 without a gap, and no allocation has the tag Unassigned
C26_NeverInvalidSubscriber ==
    /\ lastCall.called =>
        /\ ~lastCall.threw
        /\ Status(lastCall) \notin {"InvalidSubscriberNumber", "UnassignedNetworkCode"}
        /\ Reached(lastCall.steps, "search") =>
            /\ lastCall.result.telcoNumberAllocation # undefined
            /\ lastCall.result.telcoNumberAllocation.telco # "Unassigned"
    /\ \A code \in NetworkAccessCode :
        /\ CoversCode(code, loadNetworkCodeData(code))
        /\ \A i \in 1..Len(loadNetworkCodeData(code)) :
                loadNetworkCodeData(code)[i].telco # "Unassigned"

\* the last number before a boundary of the split code, found by the search
C26_Witness ==
    /\ lastCall.called
    /\ stripUnsafeInputs(lastCall.input) = Local(National(702, 999999))
    /\ Reached(lastCall.steps, "search")
    /\ lastCall.result.telcoNumberAllocation.telco = "Smile"


\* C27: the outcome of every call has succeeded = true exactly when its status
\* is Success; an outcome with Success has a parsed number and an allocation,
\* the operator of the number is the tag of the allocation, and the tag is none
\* of Unassigned, Shared VAS, Withdrawn, Reserved and Returned
C27_SucceededIffSuccess ==
    (lastCall.called /\ ~lastCall.threw)
        => /\ lastCall.result.validationSucceeded <=> Status(lastCall) = "Success"
           /\ Status(lastCall) = "Success" =>
                /\ lastCall.result.mobileNumber # undefined
                /\ lastCall.result.telcoNumberAllocation # undefined
                /\ lastCall.result.mobileNumber.telco
                        = lastCall.result.telcoNumberAllocation.telco
                /\ lastCall.result.telcoNumberAllocation.telco
                        \notin {"Unassigned", "Shared VAS", "Withdrawn", "Reserved", "Returned"}

\* a number of a sub-range of the split code that an operator holds
C27_Witness ==
    /\ lastCall.called
    /\ Status(lastCall) = "Success"
    /\ lastCall.result.validationSucceeded
    /\ lastCall.result.mobileNumber.networkCode = 702
    /\ lastCall.result.mobileNumber.telco = lastCall.result.telcoNumberAllocation.telco


---------------------------------------------------------------------------
(* The rate limiter of a validator, asked for the time until the next call *)

\* rateLimiter.timeUntilNextAllowed, read at the present time
ReadTimeUntilNextAllowed ==
    /\ rateLimit > 0
    /\ \E read \in {timeUntilNextAllowed(requestTimestamps, now, rateLimit)} :
        /\ requestTimestamps' = read.timestamps
        /\ lastOp' = [op |-> "timeUntilNextAllowed", at |-> now,
                      value |-> read.value, timestamps |-> read.timestamps]
    /\ lastCall' = NoCall
    /\ lastSearch' = NoSearch
    /\ UNCHANGED <<validationTriggeringFlags, mobileNumberingPlan, listeners, rateLimit,
                   now, loadCount, searched, admittedAt, networkAccessCodeUtil,
                   instanceB, alone, released,
                   fallbackEmitter>>

\* a number, and an input the fast reject refuses
LimiterInputs == {Local(National(803, 1234567)), <<"a">>}

InitLimiter == Init /\ rateLimit = RateLimitPerMinute

NextLimiter ==
    \/ \E userProvidedDigits \in LimiterInputs : Validate(userProvidedDigits)
    \/ ReadTimeUntilNextAllowed
    \/ Tick

SpecLimiter == InitLimiter /\ [][NextLimiter]_vars

\* the last call came to the rate limiter, after timeUntilNextAllowed was read
\* and with no call admitted since the reading
FirstRequestAfterReading ==
    /\ AtRateLimitStep(lastCall)
    /\ lastOp.op = "timeUntilNextAllowed"
    /\ lastCall.timestampsBefore = lastOp.timestamps

\* C28: timeUntilNextAllowed returns 0 exactly when a request made at that
\* instant is admitted, and when it returns d > 0 at time t, the first request
\* after it, made at time t + d, is admitted
C28_TimeUntilNextAllowed ==
    /\ (FirstRequestAfterReading /\ now = lastOp.at)
        => (lastOp.value = 0 <=> Status(lastCall) # "RateLimitExceeded")
    /\ (FirstRequestAfterReading /\ lastOp.value > 0 /\ now = lastOp.at + lastOp.value)
        => Status(lastCall) # "RateLimitExceeded"


\* the last call was refused before it was admitted: by the fast reject, which
\* comes before the limiter, or by the limiter itself
RefusedUnadmitted ==
    /\ lastCall.called
    /\ rateLimit > 0
    /\ \/ ~Reached(lastCall.steps, "checkHasExceededRateLimit")
       \/ Status(lastCall) = "RateLimitExceeded"

\* the present time and the instants after it, in steps of the clock
LaterTimes == {now + k * TickMs : k \in 0..(MaxTicks + 2)}

\* C29: a validate call refused by the fast reject or by the limiter records no
\* request: the limiter keeps the timestamps it had, less the expired ones (all
\* of them after a fast reject), and at every later instant a request is
\* admitted, and the time until the next admission is, as if the refused call
\* had not been made
C29_RejectedCallsKeepQuota ==
    RefusedUnadmitted =>
        /\ requestTimestamps = (IF Reached(lastCall.steps, "checkHasExceededRateLimit")
                                THEN PruneTimestamps(lastCall.timestampsBefore,
                                                     now - WindowSizeMs)
                                ELSE lastCall.timestampsBefore)
        /\ Len(requestTimestamps) <= Len(lastCall.timestampsBefore)
        /\ \A t \in LaterTimes :
            /\ hasExceededLimit(requestTimestamps, t, rateLimit).allowed
                = hasExceededLimit(lastCall.timestampsBefore, t, rateLimit).allowed
            /\ timeUntilNextAllowed(requestTimestamps, t, rateLimit).value
                = timeUntilNextAllowed(lastCall.timestampsBefore, t, rateLimit).value

\* a call refused by the limiter while the quota is used up
C29_Witness ==
    /\ RefusedUnadmitted
    /\ Status(lastCall) = "RateLimitExceeded"
    /\ Len(requestTimestamps) = rateLimit
    /\ requestTimestamps = lastCall.timestampsBefore

\* a call refused by the fast reject while the limiter holds a request
C29_FastRejectReached ==
    /\ RefusedUnadmitted
    /\ ~Reached(lastCall.steps, "checkHasExceededRateLimit")
    /\ requestTimestamps # <<>>


---------------------------------------------------------------------------
(* The emitter createEventEmitter() makes without Node or a browser        *)

\* what the operations on the fallback emitter leave alone
validatorVars == <<validationTriggeringFlags, mobileNumberingPlan, listeners, rateLimit,
                   requestTimestamps, now, lastCall, loadCount, searched, lastSearch,
                   admittedAt, networkAccessCodeUtil, instanceB, alone, released>>

\* emitter.on(event, listener)
On(event, listener) ==
    /\ Len(fallbackEmitter.lists[event]) < MaxListeners
    /\ fallbackEmitter' = FallbackOn(fallbackEmitter, event, listener)
    /\ lastOp' = [op |-> "on"]
    /\ UNCHANGED validatorVars

\* emitter.off(event, listener)
Off(event, listener) ==
    /\ fallbackEmitter' = FallbackOff(fallbackEmitter, event, listener)
    /\ lastOp' = [op |-> "off"]
    /\ UNCHANGED validatorVars

\* emitter.removeAllListeners(event), or emitter.removeAllListeners()
RemoveAllListeners(event) ==
    /\ fallbackEmitter' = FallbackRemoveAllListeners(fallbackEmitter, event)
    /\ lastOp' = [op |-> "removeAllListeners"]
    /\ UNCHANGED validatorVars

\* emitter.emit(event)
Emit(event) ==
    \E emitted \in {FallbackEmit(fallbackEmitter, event)} :
        /\ fallbackEmitter' = emitted.emitter
        /\ lastOp' = [op |-> "emit", event |-> event,
                      registered |-> fallbackEmitter.lists[event],
                      returned |-> emitted.returned, threw |-> emitted.threw,
                      invoked |-> emitted.invoked, logged |-> emitted.logged]
        /\ UNCHANGED validatorVars

NextEmitter ==
    \/ \E event \in EventNames, listener \in FallbackListeners : On(event, listener)
    \/ \E event \in EventNames, listener \in FallbackListeners : Off(event, listener)
    \/ \E event \in EventNames \cup {NoEvent} : RemoveAllListeners(event)
    \/ \E event \in EventNames : Emit(event)

SpecEmitter == InitPlan /\ [][NextEmitter]_vars

\* C30: emit of the fallback emitter calls every listener registered for the
\* event once, in the order of registration, also after a listener that
\* throws; it does not throw; it returns false when no listener is registered
\* for the event
C30_FallbackEmit ==
    lastOp.op = "emit" =>
        /\ lastOp.invoked = lastOp.registered
        /\ ~lastOp.threw
        /\ lastOp.registered = <<>> => ~lastOp.returned

\* what emit does: it does not throw and logs one error for each listener that
\* threw; it returns false exactly when the event has no entry, which off()
\* never takes away; it calls the registered listeners in order when none of
\* them takes itself off, and else leaves out the one that follows such a one
C30_EmitAsCoded ==
    lastOp.op = "emit" =>
        /\ ~lastOp.threw
        /\ lastOp.logged = Cardinality({i \in 1..Len(lastOp.invoked) :
                                            lastOp.invoked[i] = "throws"})
        /\ lastOp.registered # <<>> => lastOp.returned
        /\ (\A i \in 1..Len(lastOp.registered) : lastOp.registered[i] # "offItself")
            => lastOp.invoked = lastOp.registered
        /\ Len(lastOp.invoked) <= Len(lastOp.registered)

\* emit returned true although off() had taken the last listener away
C30_TrueWithoutListener ==
    /\ lastOp.op = "emit"
    /\ lastOp.registered = <<>>
    /\ lastOp.returned

\* a registered listener was not called: the one before it took itself off
C30_ListenerSkipped ==
    /\ lastOp.op = "emit"
    /\ lastOp.registered = <<"offItself", "returns">>
    /\ lastOp.invoked = <<"offItself">>

\* a listener threw and the one after it was called
C30_CalledAfterThrow ==
    /\ lastOp.op = "emit"
    /\ lastOp.registered = <<"throws", "returns">>
    /\ lastOp.invoked = <<"throws", "returns">>
    /\ lastOp.logged = 1

===========================================================================
